---- MODULE Spec2Model ----
(***************************************************************************)
(* A model of the action wrapper (src/index.js): the run() orchestrator    *)
(* with the process lifecycle around it (deadline timer, signal handlers,  *)
(* forced-exit timers), the reference parser, the artifact fetcher, the    *)
(* witness command builder and the environment handed to the nested action.*)
(*                                                                         *)
(* A JavaScript string is a sequence of pieces: one-character strings      *)
(* where the code takes the string apart (split, trim, startsWith,         *)
(* substring, case mapping), and longer pieces for runs of characters the  *)
(* code only copies. The empty string is the empty sequence.               *)
(***************************************************************************)
EXTENDS Integers, Sequences, FiniteSets, TLC

VARIABLES
    \* run() and the process around it (src/index.js:13-224, 790-806)
    inputs,       \* what core.getInput returns for the run
    state,        \* orchestrator state
    caught,       \* the error run()'s catch block received, or NoError
    exitCode,     \* process.exitCode, set by core.setFailed
    failures,     \* the messages given to core.setFailed, in order
    runPromise,   \* "pending", "resolved" or "rejected"
    exitTimer,    \* the 500 ms timer armed by run().then / .catch
    exited,       \* the process has terminated
    exitStatus,   \* the status it terminated with
    exitCause,    \* which callback called process.exit
    exitedIn,     \* the orchestrator state at that moment
    effects,      \* what run() has done outside itself so far, in order
    \* parseActionRef (src/index.js:782-788)
    refString,    \* the action-ref input
    parsed,       \* the result of parseActionRef(refString)
    \* downloadAndExtractAction (src/index.js:345-432)
    fetchRef,     \* its actionRef argument
    archive,      \* the entries the served zip archive unpacks to
    fetchPc,      \* "start", "primary", "alt" (the awaited attempt) or "done"
    requests,     \* the download attempts made, in order, with their outcome
    tempDir,      \* the entries of the temporary directory
    fetchResult,  \* what downloadAndExtractAction returned or threw
    \* the witness command of runActionWithWitness / runDirectCommandWithWitness
    rawInputs,    \* the strings core.getInput returns for the witness options
    target,       \* wrapped mode with its entry file, or direct mode with its command
    built,        \* the runArray built, or the error thrown while building
    target2,      \* the target of a second run on the same inputs
    rebuilt,      \* what the second run built
    \* the environment of the nested invocation (execOptions.env)
    parentEnv,    \* process.env
    envMode,      \* "wrapped" or "direct"
    nestedEnv,    \* the env option given to exec.exec, or NoEnv
    \* extractDesiredGitOIDs (src/index.js:627-646)
    output,       \* its argument: what the witness run printed
    gitOIDs,      \* the array it returned, or NotExtracted
    \* downloadWitness (src/index.js:227-342)
    toolWorld,    \* what it meets: the tool cache, the two servers, the archive
    toolPc,       \* the await it is at, or "done"
    toolDownloads, \* the URLs given to tc.downloadTool, in order
    toolResult,   \* what downloadWitness returned or threw
    toolPath,     \* the directories given to core.addPath, in order
    \* the witness run and the output processing of run() (src/index.js:91-197)
    childStatus,  \* the exit status of the sh process, or NotRun
    setOutputs,   \* the values given to core.setOutput("git_oid"), in order
    summary,      \* the file GITHUB_STEP_SUMMARY names, or NoSummary
    \* the exec listeners of the two executors (src/index.js:603-623, 759-779)
    childStdout,  \* the chunks the child's stdout has yet to deliver
    childStderr,  \* the chunks the child's stderr has yet to deliver
    received,     \* the chunks delivered so far, in receipt order
    captured,     \* the executor's output variable
    parentStdout, \* the bytes written to process.stdout
    parentStderr, \* the bytes written to process.stderr
    \* processAction of the strace wrapper (src/unnamed/part_002:173-352)
    wrapWorld,    \* its arguments and what the commands it runs will do
    wrapPc,       \* the await it is at, or "done"
    nodeRuns,     \* the invocations of the nested entry file, in order
    wrapResult    \* what processAction returned or threw

orchVars == <<inputs, state, caught, exitCode, failures, runPromise, exitTimer,
              exited, exitStatus, exitCause, exitedIn, effects>>
parseVars == <<refString, parsed>>
fetchVars == <<fetchRef, archive, fetchPc, requests, tempDir, fetchResult>>
buildVars == <<rawInputs, target, built, target2, rebuilt>>
envVars == <<parentEnv, envMode, nestedEnv>>
oidVars == <<output, gitOIDs>>
toolVars == <<toolWorld, toolPc, toolDownloads, toolResult, toolPath>>
reportVars == <<childStatus, setOutputs, summary>>
execVars == <<childStdout, childStderr, received, captured, parentStdout,
              parentStderr>>
wrapVars == <<wrapWorld, wrapPc, nodeRuns, wrapResult>>
vars == <<orchVars, parseVars, fetchVars, buildVars, envVars, oidVars, toolVars,
          reportVars, execVars, wrapVars>>

----------------------------------------------------------------------------
(* Bounds *)

\* longest action-ref string explored by SpecParse
MaxRefLen == 7
\* how many entries besides the conventional one an archive may unpack to
MaxExtraEntries == 2
\* longest space-separated list input (attestations, timestamp servers)
MaxListLen == 2

----------------------------------------------------------------------------
(* JavaScript string helpers *)

\* all sequences over alphabet of length at most n
StringsUpTo(alphabet, n) == UNION {[1..k -> alphabet] : k \in 0..n}

\* String.prototype.split with a one-character separator
RECURSIVE Split(_, _)
Split(s, sep) ==
    IF \E i \in 1..Len(s) : s[i] = sep
    THEN LET i == CHOOSE k \in 1..Len(s) :
                      s[k] = sep /\ \A j \in 1..(k-1) : s[j] # sep
         IN <<SubSeq(s, 1, i-1)>> \o Split(SubSeq(s, i+1, Len(s)), sep)
    ELSE <<s>>

\* String.prototype.includes for one character
Includes(s, c) == \E i \in 1..Len(s) : s[i] = c

\* the value of a JavaScript expression that completed, or the Error thrown
Returned(v) == [threw |-> FALSE, message |-> "", response |-> FALSE, value |-> v]
Thrown(msg) == [threw |-> TRUE, message |-> msg, response |-> FALSE, value |-> <<>>]
\* an axios error that carries the HTTP response (error.response is set)
ThrownWithResponse(msg) ==
    [threw |-> TRUE, message |-> msg, response |-> TRUE, value |-> <<>>]

----------------------------------------------------------------------------
(* Reference parser *)

InvalidReferenceFormat == "Invalid action-ref format. Expected 'owner/repo@ref'"

parseActionRef_AtLeastTwo(s) ==
    LET parts == Split(s, "@")
    IN  IF Len(parts) < 2
        THEN Thrown(InvalidReferenceFormat)
        ELSE Returned(<<parts[1], parts[2]>>)

\* function parseActionRef(refString)
parseActionRef(s) ==
    LET parts == Split(s, "@")
    IN  IF Len(parts) # 2
        THEN Thrown(InvalidReferenceFormat)
        ELSE Returned(parts)

\* repo.split("/")[1] in downloadAndExtractAction; an index past the end of a
\* JavaScript array is undefined, which the template literal prints as such
Undefined == <<"undefined">>
repoName(repo) ==
    LET segs == Split(repo, "/")
    IN  IF Len(segs) >= 2 THEN segs[2] ELSE Undefined

NotParsed == [threw |-> FALSE, message |-> "not called", response |-> FALSE,
              value |-> <<>>]

RefAlphabet == {"a", "/", "@"}

ParseIdle == refString = <<>> /\ parsed = NotParsed

InitParse ==
    /\ refString \in StringsUpTo(RefAlphabet, MaxRefLen)
    /\ parsed = NotParsed

ParseRef ==
    /\ parsed = NotParsed
    /\ parsed' = parseActionRef(refString)
    /\ UNCHANGED refString

----------------------------------------------------------------------------
(* Orchestrator: run() and the process lifecycle *)

NoError == [threw |-> FALSE, message |-> "", response |-> FALSE, value |-> <<>>]

\* a well-formed tag-like reference, a well-formed branch-like one, a
\* reference without "@", and the unset input
TagRef == <<"a", "/", "a", "@", "a">>
BranchRef == <<"a", "/", "a", "@", "a", "/", "a">>
BadRef == <<"a", "/", "a">>
Unset == <<>>

TerminalStates == {"Done", "Failed"}

OrchIdle ==
    /\ inputs = [actionRef |-> Unset, command |-> FALSE, enableSigstore |-> FALSE]
    /\ state = "ParsingInputs"
    /\ caught = NoError
    /\ exitCode = 0
    /\ failures = <<>>
    /\ runPromise = "pending"
    /\ exitTimer = "unset"
    /\ exited = FALSE
    /\ exitStatus = 0
    /\ exitCause = "none"
    /\ exitedIn = "none"
    /\ effects = <<>>

\* the module has been loaded: signal handlers registered, the deadline
\* timer set and unref'd, run() about to be called
InitOrch ==
    /\ inputs \in [actionRef : {Unset, TagRef, BranchRef, BadRef},
                   command : BOOLEAN,
                   enableSigstore : BOOLEAN]
    /\ state = "ParsingInputs"
    /\ caught = NoError
    /\ exitCode = 0
    /\ failures = <<>>
    /\ runPromise = "pending"
    /\ exitTimer = "unset"
    /\ exited = FALSE
    /\ exitStatus = 0
    /\ exitCause = "none"
    /\ exitedIn = "none"
    /\ effects = <<>>

Running == ~exited /\ runPromise = "pending"

WrapperActionFailed(err) == <<"Wrapper action failed: ", err.message>>
ActionWrapperFailed == <<"Action wrapper failed: ", "Converting circular structure to JSON">>

\* run().then(...): arms the 500 ms timer whose callback calls process.exit(0)
ThenHandler ==
    /\ runPromise' = "resolved"
    /\ exitTimer' = "exit0"

\* run().catch(...): core.setFailed again, and a timer that calls process.exit(1)
CatchHandler(msgs) ==
    /\ runPromise' = "rejected"
    /\ failures' = msgs \o <<ActionWrapperFailed>>
    /\ exitTimer' = "exit1"

\* the catch block of run(): core.setFailed sets process.exitCode to 1 and
\* reports the message; the block then logs the error. When the error
\* carries an HTTP response its body is the response stream
\* (responseType: "stream"), and JSON.stringify of it may throw on the
\* stream's circular references: then run() rejects, otherwise it resolves.
Catch(err) ==
    /\ state' = "Failed"
    /\ caught' = err
    /\ exitCode' = 1
    /\ \/ /\ failures' = Append(failures, WrapperActionFailed(err))
          /\ ThenHandler
       \/ /\ err.response
          /\ CatchHandler(Append(failures, WrapperActionFailed(err)))

\* run() returned normally: the promise resolves and .then runs
Succeed ==
    /\ state' = "Done"
    /\ ThenHandler
    /\ UNCHANGED <<caught, exitCode, failures>>

\* the await continues with the next orchestrator state
Continue(next) ==
    /\ state' = next
    /\ UNCHANGED <<caught, exitCode, failures, runPromise, exitTimer>>

NotExiting == UNCHANGED <<inputs, exited, exitStatus, exitCause, exitedIn>>

\* the calls the step made, followed by one "setFailed" for each message the
\* step gave to core.setFailed
Did(calls) ==
    effects' = effects \o calls
                  \o [i \in 1..(Len(failures') - Len(failures)) |-> "setFailed"]

MissingTarget == "Either 'action-ref' or 'command' input must be provided"

SelectTarget_CommandFirst(in) ==
    IF in.command
    THEN "command"
    ELSE IF in.actionRef # Unset THEN "action" ELSE "none"

SelectTarget_DefaultCommand(in) ==
    IF in.actionRef # Unset THEN "action" ELSE "command"

\* run() lines 51-60: if (actionRef) ... else if (directCommand) ... else throw
SelectTarget(in) ==
    IF in.actionRef # Unset
    THEN "action"
    ELSE IF in.command THEN "command" ELSE "none"

NpmInstallFailed == "The process 'npm' failed with exit code 1"

\* run() lines 36-41: read the tool inputs and call downloadWitness
StartRun ==
    /\ Running /\ state = "ParsingInputs"
    /\ Continue("ProvisioningTool") /\ Did(<<"downloadWitness">>)
    /\ NotExiting /\ UNCHANGED <<parseVars, fetchVars, buildVars, envVars, oidVars, toolVars,
                 reportVars, execVars, wrapVars>>

\* the tc.downloadTool calls of one downloadWitness: none on a cache hit,
\* one when the primary URL serves the archive, two when the mirror is tried
ToolDownloadAttempts == 0..2

\* await downloadWitness(...) settles
ProvisionTool ==
    /\ Running /\ state = "ProvisioningTool"
    /\ \E attempts \in ToolDownloadAttempts :
          LET downloads == [i \in 1..attempts |-> "downloadTool"]
          IN  \/ Continue("ResolvingTarget") /\ Did(downloads \o <<"addPath">>)
              \/ /\ attempts = 2
                 /\ Catch(Thrown("Could not download Witness. Please check available versions."))
                 /\ Did(downloads)
              \/ /\ attempts >= 1
                 /\ Catch(Thrown("Witness executable not found in extracted archive"))
                 /\ Did(downloads)
    /\ NotExiting /\ UNCHANGED <<parseVars, fetchVars, buildVars, envVars, oidVars, toolVars,
                 reportVars, execVars, wrapVars>>

\* const isTag = !ref.includes('/')
isTag(ref) == ~Includes(ref, "/")

FetchAttempts_Thrice(ref) == 1..3

\* the axios.get calls of one downloadAndExtractAction: the tag URL, and the
\* branch URL when the tag URL answered with an HTTP error
FetchAttempts(ref) == IF isTag(ref) THEN 1..2 ELSE {1}

\* run() lines 44-60: action-ref takes precedence over command; the
\* awaited downloadAndExtractAction parses the reference and fetches
ResolveTarget ==
    /\ Running /\ state = "ResolvingTarget"
    /\ IF SelectTarget(inputs) = "action"
       THEN LET p == parseActionRef(inputs.actionRef)
            IN  IF p.threw
                THEN Catch(p) /\ Did(<<>>)
                ELSE \E attempts \in FetchAttempts(p.value[2]) :
                     /\ \/ Continue("BuildingCommand")
                        \/ Catch(Thrown("network error"))
                        \/ /\ attempts = 2 \/ ~isTag(p.value[2])
                           /\ Catch(ThrownWithResponse("Request failed with status code 404"))
                        \/ Catch(Thrown("Extracted folder not found and could not determine alternative."))
                     /\ Did([i \in 1..attempts |-> "fetch"])
       ELSE IF SelectTarget(inputs) = "command"
       THEN Continue("BuildingCommand") /\ Did(<<>>)
       ELSE Catch(Thrown(MissingTarget)) /\ Did(<<>>)
    /\ NotExiting /\ UNCHANGED <<parseVars, fetchVars, buildVars, envVars, oidVars, toolVars,
                 reportVars, execVars, wrapVars>>

AssignmentToConstant == "Assignment to constant variable."

\* the sigstore block of runActionWithWitness / runDirectCommandWithWitness:
\* fulcio, fulcioOidcClientId, fulcioOidcIssuer and timestampServers are
\* const bindings of the destructuring, so assigning to them throws
SigstoreDefaultsThrow(enableSigstore) == enableSigstore

\* run() lines 62-151 up to the exec.exec of the witness command: the
\* options are read and the function of the mode is called, which for a
\* command tokenizes it after the options have been pushed
BuildCommand ==
    /\ Running /\ state = "BuildingCommand"
    /\ IF SelectTarget(inputs) = "action"
       THEN LET called == <<"runActionWithWitness">>
            IN
            \/ Catch(Thrown("Neither action.yml nor action.yaml found")) /\ Did(called)
            \/ Catch(Thrown("Entry point (runs.main) not defined in action metadata"))
                 /\ Did(called)
            \/ Catch(Thrown("Entry file does not exist.")) /\ Did(called)
            \/ Catch(Thrown(NpmInstallFailed)) /\ Did(called \o <<"npm install">>)
            \/ \E installed \in SUBSET {"npm install"} :
                  LET calls == called
                                 \o IF installed = {} THEN <<>> ELSE <<"npm install">>
                  IN  IF SigstoreDefaultsThrow(inputs.enableSigstore)
                      THEN Catch(Thrown(AssignmentToConstant)) /\ Did(calls)
                      ELSE Continue("Executing") /\ Did(calls \o <<"build">>)
       ELSE LET called == <<"runDirectCommandWithWitness">>
            IN  IF SigstoreDefaultsThrow(inputs.enableSigstore)
                THEN Catch(Thrown(AssignmentToConstant)) /\ Did(called)
                ELSE Continue("Executing") /\ Did(called \o <<"tokenize", "build">>)
    /\ NotExiting /\ UNCHANGED <<parseVars, fetchVars, buildVars, envVars, oidVars, toolVars,
                 reportVars, execVars, wrapVars>>

\* the states run() passes without an await: no timer callback and no
\* signal handler runs until run() has returned and .then has run
Synchronous == {"ExtractingResults", "Reporting"}

Exit(status, cause) ==
    /\ ~exited
    /\ state \notin Synchronous
    /\ exited' = TRUE
    /\ exitStatus' = status
    /\ exitCause' = cause
    /\ exitedIn' = state
    /\ UNCHANGED <<inputs, state, caught, exitCode, failures, runPromise,
                   exitTimer, effects>>
    /\ UNCHANGED <<parseVars, fetchVars, buildVars, envVars, oidVars, toolVars,
                 reportVars, execVars, wrapVars>>

\* the callback of the timer set by .then (exit 0) or .catch (exit 1)
ForcedExit ==
    /\ exitTimer # "unset"
    /\ Exit(IF exitTimer = "exit0" THEN 0 ELSE 1, "forced")

ActionTimeout_ExitZero ==
    /\ ~exited
    /\ Exit(0, "timeout")

\* the callback of actionTimeoutId: MAX_ACTION_DURATION_MS have passed
ActionTimeout ==
    /\ ~exited
    /\ Exit(1, "timeout")

\* process.on('SIGINT') and process.on('SIGTERM')
Signal ==
    /\ ~exited
    /\ \E sig \in {"SIGINT", "SIGTERM"} : Exit(0, sig)


----------------------------------------------------------------------------
(* Artifact fetcher: downloadAndExtractAction *)

\* A directory tree is a function from paths (sequences of entry names,
\* relative to the temporary directory) to "absent", "dir" or "file".
ConventionalTop == <<"a", "-", "a">>
ExtraName(i) == [k \in 1..i |-> "x"]
CandidatePaths ==
    {<<ConventionalTop>>, <<ConventionalTop, <<"a">> >>}
        \cup {<<ExtraName(i)>> : i \in 1..MaxExtraEntries}
EmptyDir == [p \in CandidatePaths |-> "absent"]
Trees ==
    {t \in [CandidatePaths -> {"absent", "dir", "file"}] :
        t[<<ConventionalTop, <<"a">> >>] # "absent" => t[<<ConventionalTop>>] = "dir"}

\* fs.existsSync(path.join(tempDir, ...)): true of files and directories alike
existsSync(tree, path) == path \in DOMAIN tree /\ tree[path] # "absent"
\* fs.readdirSync(tempDir): the names of the entries directly inside
readdirSync(tree) == {p \in DOMAIN tree : Len(p) = 1 /\ tree[p] # "absent"}
\* fs.lstatSync(path).isDirectory()
isDirectory(tree, path) == path \in DOMAIN tree /\ tree[path] = "dir"

\* path.join(tempDir, name): the name's non-empty "/"-separated segments
JoinPath(name) == SelectSeq(Split(name, "/"), LAMBDA seg : seg # <<>>)

\* the archive URL: refs/tags/ or refs/heads/ under github.com/${repo}
ZipUrl(repo, kind, ref) == [repo |-> repo, kind |-> kind, ref |-> ref]

LayoutUnresolvable == "Extracted folder not found and could not determine alternative."

\* path.join(tempDir, `${repoName}-${ref}`)
ExtractedFolder(repo, ref) == JoinPath(repoName(repo) \o <<"-">> \o ref)

\* lines 415-431: the conventional folder if it exists, else the only entry
\* of the temporary directory if that is a directory, else an error
ResolveRoot(repo, ref, tree) ==
    LET extractedFolder == ExtractedFolder(repo, ref)
        tempContents == readdirSync(tree)
    IN  IF ~existsSync(tree, extractedFolder)
        THEN IF Cardinality(tempContents) = 1
                /\ \A p \in tempContents : isDirectory(tree, p)
             THEN Returned(CHOOSE p \in tempContents : TRUE)
             ELSE Thrown(LayoutUnresolvable)
        ELSE Returned(extractedFolder)

NotFetched == [threw |-> FALSE, message |-> "not called", response |-> FALSE,
               value |-> <<>>]

FetchRefs == {TagRef, BranchRef, BadRef, <<"a", "@", "a">>}

FetchIdle ==
    /\ fetchRef = Unset
    /\ archive = <<>>
    /\ fetchPc = "done"
    /\ requests = <<>>
    /\ tempDir = <<>>
    /\ fetchResult = NotFetched

InitFetch ==
    /\ fetchRef \in FetchRefs
    /\ archive \in Trees
    /\ fetchPc = "start"
    /\ requests = <<>>
    /\ tempDir = EmptyDir
    /\ fetchResult = NotFetched

Request(repo, kind, ref) ==
    [url |-> ZipUrl(repo, kind, ref), outcome |-> "pending"]
Settle(reqs, outcome) == [reqs EXCEPT ![Len(reqs)].outcome = outcome]

FetchThrows(err) ==
    /\ fetchPc' = "done"
    /\ fetchResult' = err

\* lines 346-372: parse the reference, choose the URL by isTag, create the
\* temporary directory and start the download
FetchStart ==
    /\ fetchPc = "start"
    /\ LET p == parseActionRef(fetchRef)
       IN  IF p.threw
           THEN FetchThrows(p) /\ UNCHANGED requests
           ELSE /\ requests' = <<Request(p.value[1],
                                         IF isTag(p.value[2]) THEN "tags" ELSE "heads",
                                         p.value[2])>>
                /\ fetchPc' = "primary"
                /\ UNCHANGED fetchResult
    /\ UNCHANGED <<fetchRef, archive, tempDir>>

\* the archive has been unpacked into the temporary directory: resolve the root
Extracted ==
    LET p == parseActionRef(fetchRef)
    IN  /\ tempDir' = archive
        /\ fetchPc' = "done"
        /\ fetchResult' = ResolveRoot(p.value[1], p.value[2], archive)

\* the failures of one attempt: an HTTP error status (error.response is
\* set), a network error without a response, an extraction error
AttemptFailures == {"http", "network", "extract"}
AttemptError(outcome) ==
    IF outcome = "http"
    THEN ThrownWithResponse("Request failed with status code 404")
    ELSE Thrown(outcome)

\* lines 381-409: the catch block retries when error.response is set and
\* the reference is tag-like, and rethrows otherwise
RetryOnHeads(outcome, ref) == outcome = "http" /\ isTag(ref)

\* the awaited primary download and extraction settles (lines 364-410)
PrimarySettles ==
    /\ fetchPc = "primary"
    /\ \/ /\ requests' = Settle(requests, "ok")
          /\ Extracted
       \/ \E outcome \in AttemptFailures :
            LET repo == parseActionRef(fetchRef).value[1]
                ref == parseActionRef(fetchRef).value[2]
            IN  IF RetryOnHeads(outcome, ref)
                THEN /\ requests' = Append(Settle(requests, outcome),
                                           Request(repo, "heads", ref))
                     /\ fetchPc' = "alt"
                     /\ UNCHANGED <<tempDir, fetchResult>>
                ELSE /\ requests' = Settle(requests, outcome)
                     /\ FetchThrows(AttemptError(outcome))
                     /\ UNCHANGED tempDir
    /\ UNCHANGED <<fetchRef, archive>>

\* the awaited alternative download settles (lines 390-403); its errors
\* leave the catch block uncaught
AltSettles ==
    /\ fetchPc = "alt"
    /\ \/ /\ requests' = Settle(requests, "ok")
          /\ Extracted
       \/ \E outcome \in AttemptFailures :
            /\ requests' = Settle(requests, outcome)
            /\ FetchThrows(AttemptError(outcome))
            /\ UNCHANGED tempDir
    /\ UNCHANGED <<fetchRef, archive>>


----------------------------------------------------------------------------
(* Command builder: the cmd of runActionWithWitness and of                 *)
(* runDirectCommandWithWitness                                             *)

Whitespace == {" ", "\t", "\n"}

\* String.prototype.trim
RECURSIVE TrimStart(_)
TrimStart(s) ==
    IF s # <<>> /\ Head(s) \in Whitespace THEN TrimStart(Tail(s)) ELSE s
RECURSIVE TrimEnd(_)
TrimEnd(s) ==
    IF s # <<>> /\ s[Len(s)] \in Whitespace
    THEN TrimEnd(SubSeq(s, 1, Len(s) - 1))
    ELSE s
Trim(s) == TrimEnd(TrimStart(s))

RECURSIVE EachTrimmed_KeepEmpty(_, _)
EachTrimmed_KeepEmpty(flag, list) ==
    IF list = <<>>
    THEN <<>>
    ELSE <<flag \o Trim(Head(list))>> \o EachTrimmed_KeepEmpty(flag, Tail(list))

\* list.forEach(x => { x = x.trim(); if (x.length > 0) cmd.push(`${flag}${x}`) })
RECURSIVE EachTrimmed(_, _)
EachTrimmed(flag, list) ==
    IF list = <<>>
    THEN <<>>
    ELSE (IF Trim(Head(list)) # <<>> THEN <<flag \o Trim(Head(list))>> ELSE <<>>)
            \o EachTrimmed(flag, Tail(list))

\* if (value) cmd.push(`${flag}${value}`): the empty string is falsy
IfSet(flag, value) == IF value # <<>> THEN <<flag \o value>> ELSE <<>>
\* if (toggle) cmd.push(flag)
IfTrue(flag, toggle) == IF toggle THEN <<flag>> ELSE <<>>

\* no runArray has been built yet
NotBuilt == [threw |-> FALSE, message |-> "not called", response |-> FALSE,
             value |-> <<>>]

ReadOptions_OutfilePerRun(raw) ==
    [step |-> raw.step,
     archivistaServer |-> raw.archivistaServer,
     attestations |-> Split(raw.attestations, " "),
     certificate |-> raw.certificate,
     enableArchivista |-> raw.enableArchivista = <<"true">>,
     fulcio |-> raw.fulcio,
     fulcioOidcClientId |-> raw.fulcioOidcClientId,
     fulcioOidcIssuer |-> raw.fulcioOidcIssuer,
     fulcioToken |-> raw.fulcioToken,
     intermediates |-> Split(raw.intermediates, " "),
     key |-> raw.key,
     outfile |-> IF raw.outfile # <<>>
                 THEN raw.outfile
                 ELSE (IF built = NotBuilt THEN <<"/tmp/1/">> ELSE <<"/tmp/2/">>)
                        \o raw.step \o <<"-attestation.json">>,
     productExcludeGlob |-> raw.productExcludeGlob,
     productIncludeGlob |-> raw.productIncludeGlob,
     spiffeSocket |-> raw.spiffeSocket,
     timestampServers |-> raw.timestampServers,
     trace |-> raw.trace,
     enableSigstore |-> raw.enableSigstore = <<"true">>,
     exportLink |-> raw.exportLink = <<"true">>,
     exportSBOM |-> raw.exportSBOM = <<"true">>,
     exportSLSA |-> raw.exportSLSA = <<"true">>,
     mavenPOM |-> raw.mavenPOM]

\* run() lines 63-89: read the inputs into the options record
ReadOptions(raw) ==
    [step |-> raw.step,
     archivistaServer |-> raw.archivistaServer,
     attestations |-> Split(raw.attestations, " "),
     certificate |-> raw.certificate,
     enableArchivista |-> raw.enableArchivista = <<"true">>,
     fulcio |-> raw.fulcio,
     fulcioOidcClientId |-> raw.fulcioOidcClientId,
     fulcioOidcIssuer |-> raw.fulcioOidcIssuer,
     fulcioToken |-> raw.fulcioToken,
     intermediates |-> Split(raw.intermediates, " "),
     key |-> raw.key,
     outfile |-> IF raw.outfile # <<>>
                 THEN raw.outfile
                 ELSE <<"/tmp/">> \o raw.step \o <<"-attestation.json">>,
     productExcludeGlob |-> raw.productExcludeGlob,
     productIncludeGlob |-> raw.productIncludeGlob,
     spiffeSocket |-> raw.spiffeSocket,
     timestampServers |-> raw.timestampServers,
     trace |-> raw.trace,
     enableSigstore |-> raw.enableSigstore = <<"true">>,
     exportLink |-> raw.exportLink = <<"true">>,
     exportSBOM |-> raw.exportSBOM = <<"true">>,
     exportSLSA |-> raw.exportSLSA = <<"true">>,
     mavenPOM |-> raw.mavenPOM]

WitnessArgs_StepFirst(o) ==
    <<<<"run">>>>
    \o IfSet(<<"-s=">>, o.step)
    \o EachTrimmed(<<"-a=">>, o.attestations)
    \o IfTrue(<<"--attestor-link-export">>, o.exportLink)
    \o IfTrue(<<"--attestor-sbom-export">>, o.exportSBOM)
    \o IfTrue(<<"--attestor-slsa-export">>, o.exportSLSA)
    \o IfSet(<<"--attestor-maven-pom-path=">>, o.mavenPOM)
    \o IfSet(<<"--certificate=">>, o.certificate)
    \o IfTrue(<<"--enable-archivista=", "true">>, o.enableArchivista)
    \o IfSet(<<"--archivista-server=">>, o.archivistaServer)
    \o IfSet(<<"--signer-fulcio-url=">>, o.fulcio)
    \o IfSet(<<"--signer-fulcio-oidc-client-id=">>, o.fulcioOidcClientId)
    \o IfSet(<<"--signer-fulcio-oidc-issuer=">>, o.fulcioOidcIssuer)
    \o IfSet(<<"--signer-fulcio-token=">>, o.fulcioToken)
    \o EachTrimmed(<<"-i=">>, o.intermediates)
    \o IfSet(<<"--key=">>, o.key)
    \o IfSet(<<"--attestor-product-exclude-glob=">>, o.productExcludeGlob)
    \o IfSet(<<"--attestor-product-include-glob=">>, o.productIncludeGlob)
    \o IfSet(<<"--spiffe-socket=">>, o.spiffeSocket)
    \o (IF o.timestampServers # <<>>
        THEN EachTrimmed(<<"--timestamp-servers=">>, Split(o.timestampServers, " "))
        ELSE <<>>)
    \o IfSet(<<"--trace=">>, o.trace)
    \o IfSet(<<"--outfile=">>, o.outfile)

\* the cmd array from "run" to --outfile (lines 519-577 and 676-734) for
\* options on which the sigstore block was not entered
WitnessArgs(o) ==
    <<<<"run">>>>
    \o EachTrimmed(<<"-a=">>, o.attestations)
    \o IfTrue(<<"--attestor-link-export">>, o.exportLink)
    \o IfTrue(<<"--attestor-sbom-export">>, o.exportSBOM)
    \o IfTrue(<<"--attestor-slsa-export">>, o.exportSLSA)
    \o IfSet(<<"--attestor-maven-pom-path=">>, o.mavenPOM)
    \o IfSet(<<"--certificate=">>, o.certificate)
    \o IfTrue(<<"--enable-archivista=", "true">>, o.enableArchivista)
    \o IfSet(<<"--archivista-server=">>, o.archivistaServer)
    \o IfSet(<<"--signer-fulcio-url=">>, o.fulcio)
    \o IfSet(<<"--signer-fulcio-oidc-client-id=">>, o.fulcioOidcClientId)
    \o IfSet(<<"--signer-fulcio-oidc-issuer=">>, o.fulcioOidcIssuer)
    \o IfSet(<<"--signer-fulcio-token=">>, o.fulcioToken)
    \o EachTrimmed(<<"-i=">>, o.intermediates)
    \o IfSet(<<"--key=">>, o.key)
    \o IfSet(<<"--attestor-product-exclude-glob=">>, o.productExcludeGlob)
    \o IfSet(<<"--attestor-product-include-glob=">>, o.productIncludeGlob)
    \o IfSet(<<"--spiffe-socket=">>, o.spiffeSocket)
    \o IfSet(<<"-s=">>, o.step)
    \o (IF o.timestampServers # <<>>
        THEN EachTrimmed(<<"--timestamp-servers=">>, Split(o.timestampServers, " "))
        ELSE <<>>)
    \o IfSet(<<"--trace=">>, o.trace)
    \o IfSet(<<"--outfile=">>, o.outfile)

\* command.match(/(?:[^\s"]+|"[^"]*")+/g): a token is a longest run of
\* non-blank, non-quote characters and of double-quoted segments; a quote
\* that is never closed belongs to no token
RECURSIVE TokenEnd(_, _)
TokenEnd(s, i) ==
    IF i > Len(s) \/ s[i] \in Whitespace
    THEN i
    ELSE IF s[i] = "\""
    THEN IF \E j \in (i+1)..Len(s) : s[j] = "\""
         THEN TokenEnd(s, 1 + CHOOSE j \in (i+1)..Len(s) :
                              s[j] = "\"" /\ \A k \in (i+1)..(j-1) : s[k] # "\"")
         ELSE i
    ELSE TokenEnd(s, i + 1)
RECURSIVE TokensFrom(_, _)
TokensFrom(s, i) ==
    IF i > Len(s)
    THEN <<>>
    ELSE IF TokenEnd(s, i) = i
    THEN TokensFrom(s, i + 1)
    ELSE <<SubSeq(s, i, TokenEnd(s, i) - 1)>> \o TokensFrom(s, TokenEnd(s, i))
\* ... || [command]: match returns null when nothing matched
CommandArray(command) ==
    IF TokensFrom(command, 1) = <<>> THEN <<command>> ELSE TokensFrom(command, 1)

\* the target invocation after "--"
TargetInvocation(t) ==
    IF t.mode = "wrapped"
    THEN << <<"node">>, t.entryFile >>
    ELSE CommandArray(t.command)

\* runActionWithWitness (lines 519-585) and runDirectCommandWithWitness
\* (lines 676-741) up to runArray. Both destructure witnessOptions into
\* const bindings and, when enableSigstore is set, assign to fulcio (lines
\* 522 and 679): an assignment to a constant, which throws TypeError before
\* anything is pushed.
BuildRunArray(o, t) ==
    IF SigstoreDefaultsThrow(o.enableSigstore)
    THEN Thrown(AssignmentToConstant)
    ELSE Returned(<<<<"witness">>>> \o WitnessArgs(o) \o <<<<"--">>>>
                    \o TargetInvocation(t))

\* the values an input holds in the builds explored
SigstoreInputs ==
    [enableSigstore : {<<>>, <<"true">>},
     fulcio : {<<>>, <<"https://fulcio.example">>},
     fulcioOidcClientId : {<<>>, <<"my-client">>},
     fulcioOidcIssuer : {<<>>, <<"https://issuer.example">>}]
\* the space-separated lists: every short string of spaces and one entry
\* character, and two lists of two entries
ListInputs ==
    StringsUpTo({" ", "u"}, MaxListLen)
        \cup {<<"u", " ", "v">>, <<"v", " ", " ", "u", " ">>}
ScalarSet ==
    [step |-> <<"build">>,
     archivistaServer |-> <<"https://archivista.example">>,
     certificate |-> <<"cert.pem">>,
     enableArchivista |-> <<"true">>,
     fulcioToken |-> <<"token">>,
     intermediates |-> <<"i.pem", " ", " ", "j.pem">>,
     key |-> <<"key.pem">>,
     outfile |-> <<"out.json">>,
     productExcludeGlob |-> <<"ex*">>,
     productIncludeGlob |-> <<"in*">>,
     spiffeSocket |-> <<"/spiffe.sock">>,
     trace |-> <<"true">>,
     exportLink |-> <<"true">>,
     exportSBOM |-> <<"true">>,
     exportSLSA |-> <<"true">>,
     mavenPOM |-> <<"pom.xml">>]
ScalarNames == DOMAIN ScalarSet
\* none of the other inputs set, one of them, or all of them
ScalarChoices == {{}} \cup {{n} : n \in ScalarNames} \cup {ScalarNames}
RawInputs(sig, att, ts, chosen) ==
    [n \in ScalarNames |-> IF n \in chosen THEN ScalarSet[n] ELSE <<>>]
        @@ sig @@ [attestations |-> att, timestampServers |-> ts]

\* the six characters fs.mkdtempSync appends to the prefix
MkdtempSuffixes == {"AAAAAA", "BBBBBB"}
\* path.join(actionDir, entryPoint) below a temporary directory
EntryFile(suffix) == <<"/tmp/nested-action-", suffix, "/a-a/index.js">>

Targets ==
    {[mode |-> "wrapped", entryFile |-> EntryFile(suffix), command |-> <<>>] :
        suffix \in MkdtempSuffixes}
    \cup {[mode |-> "direct", entryFile |-> <<>>, command |-> c] :
            c \in {<<"c">>, <<"c", " ", " ", "d">>, <<"\"", "c", " ", "d", "\"">>,
                   <<"c", " ", "\"", "d">>}}

BuildIdle ==
    /\ rawInputs = <<>>
    /\ target = <<>>
    /\ built = NotBuilt
    /\ target2 = <<>>
    /\ rebuilt = NotBuilt

InitBuild ==
    /\ rawInputs \in {RawInputs(sig, att, ts, chosen) :
                        sig \in SigstoreInputs, att \in ListInputs,
                        ts \in ListInputs, chosen \in ScalarChoices}
    /\ target \in Targets
    /\ built = NotBuilt
    /\ target2 = <<>>
    /\ rebuilt = NotBuilt

\* run() reads the options and the mode's function builds its runArray
Build ==
    /\ built = NotBuilt
    /\ built' = BuildRunArray(ReadOptions(rawInputs), target)
    /\ UNCHANGED <<rawInputs, target, target2, rebuilt>>

\* the targets a run on the same inputs and the same sources may have: the
\* same command, or the same action below a temporary directory of its own
SameSource(t) ==
    IF t.mode = "wrapped"
    THEN {[t EXCEPT !.entryFile = EntryFile(suffix)] : suffix \in MkdtempSuffixes}
    ELSE {t}

\* the wrapper runs a second time on the same inputs
Rebuild ==
    /\ built # NotBuilt
    /\ rebuilt = NotBuilt
    /\ target2' \in SameSource(target)
    /\ rebuilt' = BuildRunArray(ReadOptions(rawInputs), target2')
    /\ UNCHANGED <<rawInputs, target, built>>

----------------------------------------------------------------------------
(* Environment of the nested invocation *)

\* An environment is a function from the names present (sequences of
\* characters) to their values.

CasePairs ==
    {<<"a", "A">>, <<"e", "E">>, <<"h", "H">>, <<"i", "I">>, <<"n", "N">>,
     <<"p", "P">>, <<"s", "S">>, <<"t", "T">>, <<"u", "U">>, <<"w", "W">>}
toLowerCase(s) ==
    [i \in 1..Len(s) |->
        IF \E pr \in CasePairs : pr[2] = s[i]
        THEN (CHOOSE pr \in CasePairs : pr[2] = s[i])[1]
        ELSE s[i]]
toUpperCase(s) ==
    [i \in 1..Len(s) |->
        IF \E pr \in CasePairs : pr[1] = s[i]
        THEN (CHOOSE pr \in CasePairs : pr[1] = s[i])[2]
        ELSE s[i]]
\* s.startsWith(prefix) and s.substring(n)
StartsWith(s, prefix) ==
    Len(s) >= Len(prefix) /\ SubSeq(s, 1, Len(prefix)) = prefix
Substring(s, n) == SubSeq(s, n + 1, Len(s))

INPUT_ == <<"I", "N", "P", "U", "T", "_">>
inputPrefix == <<"i", "n", "p", "u", "t", "-">>

\* key.substring(6).toLowerCase()
InputName(key) == toLowerCase(Substring(key, 6))
\* the keys the forEach of lines 501-510 records in nestedInputs
PassThroughKeys(env) ==
    {key \in DOMAIN env :
        StartsWith(key, INPUT_) /\ StartsWith(InputName(key), inputPrefix)}
\* inputName.substring(inputPrefix.length)
NestedInputName(key) == Substring(InputName(key), Len(inputPrefix))

\* nestedInputs after the forEach: when several keys give the same nested
\* name the one enumerated last wins, and the order of Object.keys(process.env)
\* is the order of the process environment, which the code does not control
NestedInputs(env) ==
    LET names == {NestedInputName(key) : key \in PassThroughKeys(env)}
    IN  {f \in [names -> {env[key] : key \in PassThroughKeys(env)}] :
            \A n \in names :
                \E key \in PassThroughKeys(env) :
                    NestedInputName(key) = n /\ f[n] = env[key]}

EnvKey_NoPrefix(name) == toUpperCase(name)

\* `INPUT_${name.toUpperCase()}`
EnvKey(name) == INPUT_ \o toUpperCase(name)

\* lines 513-516: a copy of process.env with the nested inputs set
EnvVars(env, nestedInputs) ==
    LET set == {EnvKey(n) : n \in DOMAIN nestedInputs}
    IN  [key \in DOMAIN env \cup set |->
            IF key \in set
            THEN nestedInputs[CHOOSE n \in DOMAIN nestedInputs : EnvKey(n) = key]
            ELSE env[key]]

\* no environment has been built yet
NoEnv == [key \in {<<"not built">>} |-> "not built"]

EnvKeys ==
    {<<"P", "A", "T", "H">>,
     <<"W">>,
     INPUT_ \o <<"W">>,
     INPUT_ \o <<"I", "N", "P", "U", "T", "-", "W">>,
     INPUT_ \o <<"i", "n", "p", "u", "t", "-", "w">>,
     INPUT_ \o <<"I", "N", "P", "U", "T", "_", "W">>,
     INPUT_ \o <<"I", "N", "P", "U", "T", "-", "W", "-", "H">>,
     INPUT_ \o <<"S", "T", "E", "P">>}
EnvValues == {"v1", "v2"}

EnvIdle ==
    /\ parentEnv = <<>>
    /\ envMode = "none"
    /\ nestedEnv = NoEnv

InitEnv ==
    /\ parentEnv \in UNION {[present -> EnvValues] : present \in SUBSET EnvKeys}
    /\ envMode \in {"wrapped", "direct"}
    /\ nestedEnv = NoEnv

\* runActionWithWitness passes envVars (line 592), runDirectCommandWithWitness
\* passes process.env itself (line 748)
ProjectEnv ==
    /\ nestedEnv = NoEnv
    /\ IF envMode = "wrapped"
       THEN \E nestedInputs \in NestedInputs(parentEnv) :
                nestedEnv' = EnvVars(parentEnv, nestedInputs)
       ELSE nestedEnv' = parentEnv
    /\ UNCHANGED <<parentEnv, envMode>>

----------------------------------------------------------------------------
(* Identifier extraction: extractDesiredGitOIDs *)

\* the repetition count of the regular expression /[0-9a-fA-F]{64}/
OidLength == 64

\* the marker, one piece: it holds no run of hexadecimal digits of that
\* length, begins with "S" and ends with a space
desiredSubstring == "Stored in archivista as "
\* the marker without its final space
NearMarker == "Stored in archivista as"

HexDigits ==
    {"0", "1", "2", "3", "4", "5", "6", "7", "8", "9",
     "a", "b", "c", "d", "e", "f", "A", "B", "C", "D", "E", "F"}

indexOf_StartOfLine(line, piece) == 0

\* line.indexOf(desiredSubstring): the position (from 0) of the first
\* occurrence, or -1
indexOf(line, piece) ==
    IF \E i \in 1..Len(line) : line[i] = piece
    THEN (CHOOSE i \in 1..Len(line) :
              line[i] = piece /\ \A j \in 1..(i-1) : line[j] # piece) - 1
    ELSE -1

\* line[i..i+n-1] exist and are all hexadecimal digits: [0-9a-fA-F]{n}
\* matches at position i
HexAt(line, i, n) ==
    /\ i >= 1
    /\ i + n - 1 <= Len(line)
    /\ \A j \in i..(i + n - 1) : line[j] \in HexDigits

\* line.match(/[0-9a-fA-F]{64}/): the leftmost match as <<match[0]>>, or <<>>
\* for null
match(line) ==
    LET starts == {i \in 1..Len(line) : HexAt(line, i, OidLength)}
    IN  IF starts = {}
        THEN <<>>
        ELSE LET first == CHOOSE i \in starts : \A j \in starts : i <= j
             IN  <<SubSeq(line, first, first + OidLength - 1)>>

\* the for loop over the lines, with matchArray as built so far
RECURSIVE ForEachLine(_, _)
ForEachLine(lines, matchArray) ==
    IF lines = <<>>
    THEN matchArray
    ELSE LET line == Head(lines)
             startIndex == indexOf(line, desiredSubstring)
         IN  ForEachLine(Tail(lines),
                         IF startIndex # -1 /\ match(line) # <<>>
                         THEN Append(matchArray, match(line)[1])
                         ELSE matchArray)

\* function extractDesiredGitOIDs(output)
extractDesiredGitOIDs(out) == ForEachLine(Split(out, "\n"), <<>>)

NotExtracted == <<"not called">>

\* n copies of the character c
Run(c, n) == [i \in 1..n |-> c]

\* the lines the witness run may print: with and without the marker, with
\* runs of hexadecimal digits shorter than, equal to and longer than
\* OidLength, before and after the marker
OutputLines ==
    {<<>>,
     <<desiredSubstring>>,
     <<desiredSubstring>> \o Run("a", OidLength),
     <<desiredSubstring>> \o Run("b", OidLength),
     <<desiredSubstring>> \o Run("0", OidLength - 1) \o <<"F">>,
     <<desiredSubstring>> \o Run("a", OidLength - 1),
     <<desiredSubstring>> \o Run("a", OidLength + 1),
     <<desiredSubstring>> \o Run("a", OidLength - 1) \o <<"g">> \o Run("b", OidLength - 1),
     <<desiredSubstring>> \o Run("a", OidLength) \o <<" ">> \o Run("b", OidLength),
     Run("a", OidLength),
     Run("b", OidLength) \o <<" ">> \o <<desiredSubstring>>,
     Run("b", OidLength) \o <<" ">> \o <<desiredSubstring>> \o Run("a", OidLength),
     <<NearMarker>> \o Run("a", OidLength)}

\* the maximal number of lines of an output
MaxLines == 3

\* lines.join("\n")
RECURSIVE Join(_)
Join(lines) ==
    IF Len(lines) = 1
    THEN lines[1]
    ELSE lines[1] \o <<"\n">> \o Join(Tail(lines))

OidIdle == output = <<>> /\ gitOIDs = NotExtracted

InitOid ==
    /\ \E n \in 1..MaxLines :
          \E lines \in [1..n -> OutputLines] : output = Join(lines)
    /\ gitOIDs = NotExtracted

\* const gitOIDs = extractDesiredGitOIDs(witnessOutput)
Extract ==
    /\ gitOIDs = NotExtracted
    /\ gitOIDs' = extractDesiredGitOIDs(output)
    /\ UNCHANGED output

----------------------------------------------------------------------------
(* Execution and output processing: run() lines 91-197 *)

\* exec.exec without ignoreReturnCode rejects when the process exits with a
\* status other than 0
Rejects_Never(status) == FALSE
Rejects(status) == status # 0

NotRun == -1
ExitStatuses == {0, 1}

\* what the witness run may have printed when sh exits
WitnessOutputs ==
    {<<"done">>,
     <<desiredSubstring>> \o Run("a", OidLength),
     Join(<< <<desiredSubstring>> \o Run("a", OidLength), <<"log">>,
             <<desiredSubstring>> \o Run("b", OidLength) >>),
     Join(<< <<desiredSubstring>> \o Run("a", OidLength),
             <<desiredSubstring>> \o Run("a", OidLength) >>)}

\* the inputs the summary row prints
ReportedStep == <<"build">>
ReportedAttestations == << <<"environment">>, <<"git">> >>
ReportedServer == <<"https://archivista.example">>

\* const summaryHeader = `...`: a template literal of four lines, the first
\* of them empty
summaryHeader ==
    <<"\n", "## Attestations Created",
      "\n", "| Step | Attestors Run | Attestation GitOID",
      "\n", "| --- | --- | --- |", "\n">>

\* String.prototype.includes
IncludesString(s, t) ==
    \E i \in 0..(Len(s) - Len(t)) : SubSeq(s, i + 1, i + Len(t)) = t

\* attestations.join(", ")
RECURSIVE JoinWith(_, _)
JoinWith(list, sep) ==
    IF list = <<>>
    THEN <<>>
    ELSE IF Len(list) = 1
    THEN list[1]
    ELSE list[1] \o sep \o JoinWith(Tail(list), sep)

\* `| ${step} | ${attestations.join(", ")} | [${gitOID}](${artifactURL}) |\n`
\* with artifactURL = `${archivistaServer}/download/${gitOID}`
tableRow(gitOID) ==
    <<"| ">> \o ReportedStep \o <<" | ">>
        \o JoinWith(ReportedAttestations, <<", ">>)
        \o <<" | [">> \o gitOID \o <<"](">>
        \o ReportedServer \o <<"/download/">> \o gitOID \o <<") |", "\n">>

\* the file process.env.GITHUB_STEP_SUMMARY names: the variable may be
\* unset, and the file it names may not be readable
NoSummary == [path |-> FALSE, readable |-> FALSE, content |-> <<>>]
UnreadableSummary == [path |-> TRUE, readable |-> FALSE, content |-> <<>>]
SummaryFile(content) == [path |-> TRUE, readable |-> TRUE, content |-> content]

\* what earlier steps and earlier runs of the wrapper left in the file
EarlierSummaries ==
    {<<>>,
     <<"# Build", "\n">>,
     summaryHeader \o tableRow(Run("c", OidLength)),
     <<"# Build", "\n">> \o summaryHeader \o tableRow(Run("c", OidLength))
        \o <<"# Test", "\n">>}

ReportOne_HeaderEachTime(gitOID, acc) ==
    [file |-> IF acc.file.path /\ acc.file.readable
              THEN SummaryFile(acc.file.content \o summaryHeader \o tableRow(gitOID))
              ELSE acc.file,
     calls |-> Append(acc.calls, "setOutput")]

\* the body of the for loop (lines 156-197) for one identifier, on the
\* summary file and the calls made so far
ReportOne(gitOID, acc) ==
    LET out == Append(acc.calls, "setOutput")
    IN  IF ~acc.file.path
        THEN [file |-> acc.file, calls |-> out]
        ELSE IF ~acc.file.readable
        THEN [file |-> acc.file, calls |-> Append(out, "warning")]
        ELSE LET summaryFile == acc.file.content
                 headerExists == IncludesString(summaryFile, Trim(summaryHeader))
                 withHeader == IF headerExists
                               THEN summaryFile
                               ELSE summaryFile \o summaryHeader
             IN  [file |-> SummaryFile(withHeader \o tableRow(gitOID)),
                  calls |-> out
                      \o (IF headerExists THEN <<>> ELSE <<"appendFileSync">>)
                      \o <<"appendFileSync">>]

\* for (const gitOID of gitOIDs) { ... }
RECURSIVE ReportEach(_, _)
ReportEach(oids, acc) ==
    IF oids = <<>>
    THEN acc
    ELSE ReportEach(Tail(oids), ReportOne(Head(oids), acc))

ReportIdle ==
    /\ childStatus = NotRun
    /\ setOutputs = <<>>
    /\ summary = NoSummary

InitReport ==
    /\ childStatus = NotRun
    /\ setOutputs = <<>>
    /\ summary \in {NoSummary, UnreadableSummary}
                     \cup {SummaryFile(c) : c \in EarlierSummaries}

\* await exec.exec('sh', ['-c', commandString]) settles: the promise of
\* runActionWithWitness / runDirectCommandWithWitness resolves with the
\* captured output, or rejects and the output is dropped with it
Execute ==
    /\ Running /\ state = "Executing"
    /\ \/ \E status \in ExitStatuses :
             /\ childStatus' = status
             /\ output' \in WitnessOutputs
             /\ IF Rejects(status)
                THEN Catch(Thrown("The process 'sh' failed with exit code 1"))
                ELSE Continue("ExtractingResults")
       \/ /\ Catch(Thrown("There was an error when attempting to execute the process 'sh'"))
          /\ UNCHANGED <<childStatus, output>>
    /\ Did(<<"exec">>)
    /\ NotExiting
    /\ UNCHANGED <<parseVars, fetchVars, buildVars, envVars, gitOIDs, toolVars,
                   setOutputs, summary, execVars, wrapVars>>

\* line 154: const gitOIDs = extractDesiredGitOIDs(witnessOutput)
ExtractResults ==
    /\ Running /\ state = "ExtractingResults"
    /\ gitOIDs' = extractDesiredGitOIDs(output)
    /\ Continue("Reporting") /\ Did(<<>>)
    /\ NotExiting
    /\ UNCHANGED <<parseVars, fetchVars, buildVars, envVars, output, toolVars,
                   reportVars, execVars, wrapVars>>

\* lines 156-197: the loop over the identifiers; then run() returns
Report ==
    /\ Running /\ state = "Reporting"
    /\ Succeed
    /\ LET done == ReportEach(gitOIDs, [file |-> summary, calls |-> <<>>])
       IN  /\ setOutputs' = gitOIDs
           /\ summary' = done.file
           /\ Did(done.calls)
    /\ NotExiting
    /\ UNCHANGED <<parseVars, fetchVars, buildVars, envVars, oidVars, toolVars,
                   childStatus, execVars, wrapVars>>

----------------------------------------------------------------------------
(* Tool provisioner: downloadWitness *)

\* The release archive of the tool for a platform, at one of the two
\* repositories that publish it.
DownloadUrl(platform) ==
    [owner |-> "testifysec",
     file |-> IF platform = "win32" THEN "windows_amd64.tar.gz"
              ELSE IF platform = "darwin" THEN "darwin_amd64.tar.gz"
              ELSE "linux_amd64.tar.gz"]

FallbackUrl_Same(url) == url

\* downloadUrl.replace('testifysec', 'in-toto'): the first occurrence is the
\* owner in the URL's path
FallbackUrl(url) == [url EXCEPT !.owner = "in-toto"]

CouldNotDownload == "Could not download Witness. Please check available versions."
ExecutableNotFound == "Witness executable not found in extracted archive"

\* the directory tc.find and tc.cacheFile return
CachedDir == <<"tool cache", "witness">>

\* where the archive holds the executable: at its top, in a directory of
\* its top, deeper, or nowhere
Layouts == {"top", "subdirectory", "deeper", "absent"}
\* what the search of lines 280-313 finds
Located(layout) == layout \in {"top", "subdirectory"}

NoWorld == [cached |-> TRUE, platform |-> "linux", primary |-> "ok",
            mirror |-> "ok", extract |-> "ok", layout |-> "top", cache |-> "ok"]

ToolIdle ==
    /\ toolWorld = NoWorld
    /\ toolPc = "idle"
    /\ toolDownloads = <<>>
    /\ toolResult = NotParsed
    /\ toolPath = <<>>

InitTool ==
    /\ toolWorld \in [cached : BOOLEAN,
                      platform : {"win32", "darwin", "linux"},
                      primary : {"ok", "fail"},
                      mirror : {"ok", "fail"},
                      extract : {"ok", "fail"},
                      layout : Layouts,
                      cache : {"ok", "fail"}]
    /\ toolPc = "start"
    /\ toolDownloads = <<>>
    /\ toolResult = NotParsed
    /\ toolPath = <<>>

\* lines 338-341: core.addPath(witnessPath); return witnessPath
ToolReturns(dir) ==
    /\ toolPath' = Append(toolPath, dir)
    /\ toolResult' = Returned(dir)
    /\ toolPc' = "done"

ToolThrows(msg) ==
    /\ toolResult' = Thrown(msg)
    /\ toolPc' = "done"
    /\ UNCHANGED toolPath

\* lines 229-251: tc.find; on a miss the first tc.downloadTool is awaited
ToolStart ==
    /\ toolPc = "start"
    /\ IF toolWorld.cached
       THEN ToolReturns(CachedDir) /\ UNCHANGED toolDownloads
       ELSE /\ toolDownloads' = <<DownloadUrl(toolWorld.platform)>>
            /\ toolPc' = "primary"
            /\ UNCHANGED <<toolResult, toolPath>>
    /\ UNCHANGED toolWorld

\* lines 249-258: the first download settles; on failure the fallback URL is
\* tried
ToolPrimarySettles ==
    /\ toolPc = "primary"
    /\ IF toolWorld.primary = "ok"
       THEN toolPc' = "extract" /\ UNCHANGED toolDownloads
       ELSE /\ toolDownloads' = Append(toolDownloads, FallbackUrl(toolDownloads[1]))
            /\ toolPc' = "mirror"
    /\ UNCHANGED <<toolWorld, toolResult, toolPath>>

\* lines 257-266: the fallback download settles
ToolMirrorSettles ==
    /\ toolPc = "mirror"
    /\ IF toolWorld.mirror = "ok"
       THEN toolPc' = "extract" /\ UNCHANGED <<toolResult, toolPath>>
       ELSE ToolThrows(CouldNotDownload)
    /\ UNCHANGED <<toolWorld, toolDownloads>>

\* lines 269-278: await tc.extractTar(witnessTar, installDir), outside any try
ToolExtractSettles ==
    /\ toolPc = "extract"
    /\ IF toolWorld.extract = "ok"
       THEN toolPc' = "locate" /\ UNCHANGED <<toolResult, toolPath>>
       ELSE ToolThrows("tar failed")
    /\ UNCHANGED <<toolWorld, toolDownloads>>

\* lines 280-341: find the executable, cache it with tc.cacheFile, add the
\* cached directory to the PATH; the catch of line 326 rethrows
ToolLocate ==
    /\ toolPc = "locate"
    /\ IF ~Located(toolWorld.layout)
       THEN ToolThrows(ExecutableNotFound)
       ELSE IF toolWorld.cache = "fail"
            THEN ToolThrows("cacheFile failed")
            ELSE ToolReturns(CachedDir)
    /\ UNCHANGED <<toolWorld, toolDownloads>>

----------------------------------------------------------------------------
(* Executor: the exec listeners of runActionWithWitness and of             *)
(* runDirectCommandWithWitness                                             *)

\* A chunk is the Buffer a stream hands to its 'data' listener: a sequence
\* of bytes. The child prints UTF-8 text; "a" is the byte of an ASCII
\* character, "C3" "A9" are the two bytes of one accented character. A pipe
\* cuts the bytes into chunks wherever it happens to.
Ascii == {"a"}
AccentedBytes == <<"C3", "A9">>
Accented == "e-acute"
ReplacementCharacter == "U+FFFD"

\* the longest text (in bytes) a stream of the child carries
MaxBytes == 3

\* the UTF-8 encoding of a string: what process.stdout.write(str) writes
RECURSIVE Utf8(_)
Utf8(str) ==
    IF str = <<>>
    THEN <<>>
    ELSE (IF Head(str) = Accented
          THEN AccentedBytes
          ELSE IF Head(str) = ReplacementCharacter
          THEN <<"EF", "BF", "BD">>
          ELSE <<Head(str)>>) \o Utf8(Tail(str))

\* data.toString(): the chunk decoded as UTF-8 on its own; bytes that are
\* not a complete character decode to U+FFFD each
RECURSIVE toString(_)
toString(data) ==
    IF data = <<>>
    THEN <<>>
    ELSE IF Head(data) \in Ascii
    THEN <<Head(data)>> \o toString(Tail(data))
    ELSE IF Len(data) >= 2 /\ SubSeq(data, 1, 2) = AccentedBytes
    THEN <<Accented>> \o toString(SubSeq(data, 3, Len(data)))
    ELSE <<ReplacementCharacter>> \o toString(Tail(data))

\* the texts a stream may carry, and the ways a pipe may cut one into chunks
Texts == {t \in StringsUpTo(Ascii \cup {Accented}, MaxBytes) : Len(Utf8(t)) <= MaxBytes}
RECURSIVE Chunkings(_)
Chunkings(bytes) ==
    IF bytes = <<>>
    THEN {<<>>}
    ELSE UNION {{<<SubSeq(bytes, 1, k)>> \o rest :
                    rest \in Chunkings(SubSeq(bytes, k + 1, Len(bytes)))} :
                k \in 1..Len(bytes)}

ExecIdle ==
    /\ childStdout = <<>>
    /\ childStderr = <<>>
    /\ received = <<>>
    /\ captured = <<>>
    /\ parentStdout = <<>>
    /\ parentStderr = <<>>

\* let output = '' and exec.exec has started the child
InitExec ==
    /\ \E t \in Texts : childStdout \in Chunkings(Utf8(t))
    /\ \E t \in Texts : childStderr \in Chunkings(Utf8(t))
    /\ received = <<>>
    /\ captured = <<>>
    /\ parentStdout = <<>>
    /\ parentStderr = <<>>

\* listeners.stdout: (data) => { const str = data.toString();
\*                              output += str; process.stdout.write(str); }
StdoutListener ==
    /\ childStdout # <<>>
    /\ LET data == Head(childStdout)
           str == toString(data)
       IN  /\ captured' = captured \o str
           /\ parentStdout' = parentStdout \o Utf8(str)
           /\ received' = Append(received, [stream |-> "stdout", data |-> data])
    /\ childStdout' = Tail(childStdout)
    /\ UNCHANGED <<childStderr, parentStderr>>

\* listeners.stderr: the same with process.stderr.write(str)
StderrListener ==
    /\ childStderr # <<>>
    /\ LET data == Head(childStderr)
           str == toString(data)
       IN  /\ captured' = captured \o str
           /\ parentStderr' = parentStderr \o Utf8(str)
           /\ received' = Append(received, [stream |-> "stderr", data |-> data])
    /\ childStderr' = Tail(childStderr)
    /\ UNCHANGED <<childStdout, parentStdout>>

----------------------------------------------------------------------------
(* The strace wrapper: processAction (src/unnamed/part_002)                *)

\* parseCommand: commandString.trim().split(/\s+/).filter(Boolean)
parseCommand(commandString) ==
    SelectSeq(Split(Trim(commandString), " "), LAMBDA word : word # <<>>)

loggableCommands ==
    {<<"strace">>, <<"time">>, <<"ltrace">>, <<"perf">>, <<"valgrind">>,
     <<"memcheck">>, <<"gdb">>, <<"prof">>, <<"top">>, <<"vmstat">>, <<"iostat">>}
shouldCreateLogFile(command) == command \in loggableCommands

WrapperCommands ==
    {<<"strace", " ", "-f">>,
     <<"strace", " ", "-o", " ", "trace.log">>,
     <<"time", " ", "-v">>,
     <<"ltrace">>,
     <<"env">>}

WrapperEntryFile == <<"/tmp/nested-action/a-a/index.js">>
WrapperLogFile == <<"wrapper.log">>

\* lines 256-310: the command line of the wrapped execution
WrappedCommandLine(wrapperCommand, args) ==
    LET words == parseCommand(wrapperCommand)
        wrapperCmd == Head(words)
        wrapperArgs == Tail(words)
        isStrace == wrapperCmd = <<"strace">>
        hasOutputOption == \E i \in 1..Len(wrapperArgs) :
                              wrapperArgs[i] \in {<<"-o">>, <<"--output">>}
        logged == (isStrace \/ shouldCreateLogFile(wrapperCmd)) /\ ~hasOutputOption
        nodeArgs == <<WrapperEntryFile>> \o args
    IN  IF logged /\ (isStrace \/ wrapperCmd = <<"time">>)
        THEN <<wrapperCmd>> \o wrapperArgs \o << <<"-o">>, WrapperLogFile >>
                \o << <<"node">> >> \o nodeArgs
        ELSE IF logged
        THEN << <<"bash">>, <<"-c">>,
                JoinWith(<<wrapperCmd>> \o wrapperArgs \o << <<"node">> >> \o nodeArgs
                            \o << <<">">>, WrapperLogFile, <<"2>&1">> >>, <<" ">>) >>
        ELSE <<wrapperCmd>> \o wrapperArgs \o << <<"node">> >> \o nodeArgs

\* lines 341 and 349: exec.getExecOutput("node", [entryFile, ...args])
PlainCommandLine(args) == << <<"node">>, WrapperEntryFile >> \o args

NotProcessed == [threw |-> FALSE, message |-> "not called", response |-> FALSE,
                 value |-> <<>>]

WrapIdle ==
    /\ wrapWorld = <<>>
    /\ wrapPc = "idle"
    /\ nodeRuns = <<>>
    /\ wrapResult = NotProcessed

\* processAction has read the metadata and is at line 254; the record says
\* what `which`, the wrapped execution and a plain execution will do
InitWrap ==
    /\ wrapWorld \in [isWrapperEnabled : BOOLEAN,
                       wrapperCommand : WrapperCommands,
                       args : {<<>>, << <<"--x">> >>},
                       available : BOOLEAN,
                       wrappedStatus : {0, 1},
                       plainStatus : {0, 1}]
    /\ wrapPc = "start"
    /\ nodeRuns = <<>>
    /\ wrapResult = NotProcessed

RunNode(wrapped, line) ==
    nodeRuns' = Append(nodeRuns, [wrapped |-> wrapped, line |-> line])

\* line 254: if (isWrapperEnabled && wrapperCommand) ... else run plainly
WrapStart ==
    /\ wrapPc = "start"
    /\ IF wrapWorld.isWrapperEnabled /\ wrapWorld.wrapperCommand # <<>>
       THEN wrapPc' = "which" /\ UNCHANGED nodeRuns
       ELSE wrapPc' = "plain" /\ RunNode(FALSE, PlainCommandLine(wrapWorld.args))
    /\ UNCHANGED <<wrapWorld, wrapResult>>

\* await exec.exec("which", [wrapperCmd]) settles: the wrapped execution
\* starts, or the catch block starts the execution without the wrapper
WhichSettles ==
    /\ wrapPc = "which"
    /\ IF wrapWorld.available
       THEN /\ wrapPc' = "wrapped"
            /\ RunNode(TRUE, WrappedCommandLine(wrapWorld.wrapperCommand,
                                                wrapWorld.args))
       ELSE /\ wrapPc' = "fallback"
            /\ RunNode(FALSE, PlainCommandLine(wrapWorld.args))
    /\ UNCHANGED <<wrapWorld, wrapResult>>

\* await exec.getExecOutput(wrapperCmd, ...) settles inside the try block:
\* ignoreReturnCode is false, so a non-zero status rejects, and the catch
\* block (lines 335-343) starts the execution without the wrapper
WrappedSettles ==
    /\ wrapPc = "wrapped"
    /\ IF wrapWorld.wrappedStatus = 0
       THEN /\ wrapPc' = "done"
            /\ wrapResult' = Returned(<<>>)
            /\ UNCHANGED nodeRuns
       ELSE /\ wrapPc' = "fallback"
            /\ RunNode(FALSE, PlainCommandLine(wrapWorld.args))
            /\ UNCHANGED wrapResult
    /\ UNCHANGED wrapWorld

\* await exec.getExecOutput("node", ...) settles, in the catch block or in
\* the else branch
PlainSettles ==
    /\ wrapPc \in {"fallback", "plain"}
    /\ wrapPc' = "done"
    /\ wrapResult' = IF wrapWorld.plainStatus = 0
                     THEN Returned(<<>>)
                     ELSE Thrown("The process 'node' failed with exit code 1")
    /\ UNCHANGED <<wrapWorld, nodeRuns>>

----------------------------------------------------------------------------
(* Properties: exit status *)

\* C1: a run that ended in a fatal error terminates with a non-zero exit
\* status, and status 0 is given only to a run that succeeded (exits forced
\* by a signal handler set aside).
C1_ExitStatusReflectsOutcome ==
    (exited /\ exitCause \notin {"SIGINT", "SIGTERM"}) =>
        /\ (state = "Failed" => exitStatus # 0)
        /\ (exitStatus = 0 => state = "Done")

\* C2: when the deadline timer fires while the run is in a non-terminal
\* state, whichever it is, the process exits with a non-zero status; and
\* the timer's callback can run in every state in which run() is suspended
\* or has returned, as long as the process has not exited.
C2_DeadlineExitsNonZero ==
    /\ (~exited /\ state \notin Synchronous => ENABLED ActionTimeout)
    /\ (exitCause = "timeout" /\ exitedIn \notin TerminalStates) =>
            exited /\ exitStatus # 0

C2_DeadlineDuringExecution ==
    exited /\ exitCause = "timeout" /\ exitedIn = "Executing" /\ exitStatus = 1

----------------------------------------------------------------------------
(* Properties: reference parser *)

Count(s, c) == Cardinality({i \in 1..Len(s) : s[i] = c})

\* owner/repo@ref: one "@", before it one "/" between a non-empty owner and
\* a non-empty repo, after it a non-empty ref (which may hold "/")
WellFormedRef(s) ==
    \E i, j \in 1..Len(s) :
        /\ s[i] = "@" /\ \A k \in 1..Len(s) : s[k] = "@" => k = i
        /\ s[j] = "/" /\ \A k \in 1..(i-1) : s[k] = "/" => k = j
        /\ 1 < j /\ j < i - 1 /\ i < Len(s)

\* C3: a well-formed owner/repo@ref is taken apart losslessly (owner, "/",
\* repo, "@", ref give the input back, also when ref holds "/"), and a
\* string without exactly one "@" fails with the invalid-reference error.
C3_ParseRoundTrip ==
    parsed # NotParsed =>
        /\ WellFormedRef(refString) =>
              /\ ~parsed.threw
              /\ LET repo == parsed.value[1]
                     ref == parsed.value[2]
                     owner == Split(repo, "/")[1]
                 IN  owner \o <<"/">> \o repoName(repo) \o <<"@">> \o ref = refString
        /\ Count(refString, "@") # 1 =>
              parsed.threw /\ parsed.message = InvalidReferenceFormat

C3_BranchRefParsed ==
    /\ refString = BranchRef
    /\ parsed = Returned(<<<<"a", "/", "a">>, <<"a", "/", "a">>>>)

\* C4: parseActionRef succeeds exactly when the split on "@" yields two
\* non-empty parts; an empty side makes it fail.
C4_EmptySideRejected ==
    parsed # NotParsed =>
        (~parsed.threw <=>
            /\ Count(refString, "@") = 1
            /\ refString[1] # "@"
            /\ refString[Len(refString)] # "@")

----------------------------------------------------------------------------
(* Properties: artifact fetcher *)

FetchedRepo == parseActionRef(fetchRef).value[1]
FetchedRef == parseActionRef(fetchRef).value[2]
\* the last attempt downloaded and unpacked the archive
Unpacked == requests # <<>> /\ requests[Len(requests)].outcome = "ok"
Subdirectories(tree) == {p \in readdirSync(tree) : isDirectory(tree, p)}

\* C5: for a tag-like ref, a failed attempt on the tags URL, whatever the
\* failure, is followed by exactly one attempt on the heads URL, and when
\* that one unpacks an archive holding the conventional directory, fetch
\* returns it.
C5_TagFailureRetriesOnHeads ==
    (/\ fetchPc \in {"alt", "done"}
     /\ WellFormedRef(fetchRef)
     /\ isTag(FetchedRef)
     /\ requests[1].outcome \in AttemptFailures) =>
        /\ Len(requests) = 2
        /\ requests[2].url = ZipUrl(FetchedRepo, "heads", FetchedRef)
        /\ (/\ fetchPc = "done"
            /\ requests[2].outcome = "ok"
            /\ isDirectory(tempDir, ExtractedFolder(FetchedRepo, FetchedRef))) =>
                fetchResult = Returned(ExtractedFolder(FetchedRepo, FetchedRef))

\* C6: with no entry of the conventional name and exactly one subdirectory
\* in the temporary directory, fetch returns that subdirectory, whatever
\* files lie beside it.
C6_SingleSubdirectoryIsRoot ==
    (/\ fetchPc = "done" /\ Unpacked
     /\ WellFormedRef(fetchRef)
     /\ ~existsSync(tempDir, ExtractedFolder(FetchedRepo, FetchedRef))
     /\ Cardinality(Subdirectories(tempDir)) = 1) =>
        /\ ~fetchResult.threw
        /\ fetchResult.value \in Subdirectories(tempDir)

\* C7: with no conventional directory and zero or several subdirectories
\* fetch fails with the layout error, and whatever fetch returns is an
\* existing directory inside the temporary directory.
C7_UnresolvableLayoutFails ==
    (fetchPc = "done" /\ Unpacked /\ WellFormedRef(fetchRef)) =>
        /\ (/\ ~isDirectory(tempDir, ExtractedFolder(FetchedRepo, FetchedRef))
            /\ Cardinality(Subdirectories(tempDir)) # 1) =>
                fetchResult = Thrown(LayoutUnresolvable)
        /\ ~fetchResult.threw => isDirectory(tempDir, fetchResult.value)

----------------------------------------------------------------------------
(* Properties: command builder *)

HasToken(cmd, token) == \E i \in 1..Len(cmd) : cmd[i] = token
TimestampFlags(cmd) ==
    SelectSeq(cmd, LAMBDA tok : tok[1] = "--timestamp-servers=")
SigstoreOn == built # NotBuilt /\ rawInputs.enableSigstore = <<"true">>

\* C8: with enableSigstore and the three fulcio inputs unset, the command
\* built in either mode holds the three default signer flags, and its
\* first --timestamp-servers flag is https://freetsa.org/tsr.
C8_SigstoreDefaults ==
    (/\ SigstoreOn
     /\ rawInputs.fulcio = <<>>
     /\ rawInputs.fulcioOidcClientId = <<>>
     /\ rawInputs.fulcioOidcIssuer = <<>>) =>
        /\ ~built.threw
        /\ HasToken(built.value, <<"--signer-fulcio-url=", "https://fulcio.sigstore.dev">>)
        /\ HasToken(built.value, <<"--signer-fulcio-oidc-client-id=", "sigstore">>)
        /\ HasToken(built.value,
                    <<"--signer-fulcio-oidc-issuer=", "https://oauth2.sigstore.dev/auth">>)
        /\ TimestampFlags(built.value) # <<>>
        /\ TimestampFlags(built.value)[1] =
                <<"--timestamp-servers=", "https://freetsa.org/tsr">>

\* C9: with enableSigstore, each fulcio input the caller set appears in the
\* command with the caller's value, and each unset one with its default.
C9_SigstoreKeepsCallerValues ==
    SigstoreOn =>
        /\ ~built.threw
        /\ HasToken(built.value,
                <<"--signer-fulcio-url=">> \o
                    (IF rawInputs.fulcio # <<>> THEN rawInputs.fulcio
                     ELSE <<"https://fulcio.sigstore.dev">>))
        /\ HasToken(built.value,
                <<"--signer-fulcio-oidc-client-id=">> \o
                    (IF rawInputs.fulcioOidcClientId # <<>>
                     THEN rawInputs.fulcioOidcClientId
                     ELSE <<"sigstore">>))
        /\ HasToken(built.value,
                <<"--signer-fulcio-oidc-issuer=">> \o
                    (IF rawInputs.fulcioOidcIssuer # <<>>
                     THEN rawInputs.fulcioOidcIssuer
                     ELSE <<"https://oauth2.sigstore.dev/auth">>))

----------------------------------------------------------------------------
(* Properties: environment *)

\* C10: the nested environment holds exactly the parent's variables whose
\* name does not start with INPUT_, each with its value unchanged.
C10_NonInputVariablesUntouched ==
    nestedEnv # NoEnv =>
        \A key \in (DOMAIN parentEnv \cup DOMAIN nestedEnv) :
            ~StartsWith(key, INPUT_) =>
                /\ key \in DOMAIN parentEnv
                /\ key \in DOMAIN nestedEnv
                /\ nestedEnv[key] = parentEnv[key]

C10_PassThroughBesidePath ==
    /\ envMode = "wrapped"
    /\ nestedEnv # NoEnv
    /\ DOMAIN parentEnv =
            {<<"P", "A", "T", "H">>, <<"W">>,
             INPUT_ \o <<"I", "N", "P", "U", "T", "-", "W">>}
    /\ parentEnv[<<"W">>] = "v1"
    /\ parentEnv[INPUT_ \o <<"I", "N", "P", "U", "T", "-", "W">>] = "v2"
    /\ nestedEnv[INPUT_ \o <<"W">>] = "v2"
    /\ nestedEnv[<<"W">>] = "v1"

\* the names of the wrapper's own inputs, as the variants of
\* runActionWithWitness list them, that occur among the modelled keys
wrapperSpecificInputs ==
    {<<"S", "T", "E", "P">>, <<"K", "E", "Y">>, <<"T", "R", "A", "C", "E">>}

\* inputName.replace(/-/g, "_")
HyphensToUnderscores(s) ==
    [i \in 1..Len(s) |-> IF s[i] = "-" THEN "_" ELSE s[i]]

\* the INPUT_ variables of the parent whose name is not reserved
ForwardedKeys(env) ==
    {key \in DOMAIN env :
        StartsWith(key, INPUT_) /\ Substring(key, 6) \notin wrapperSpecificInputs}
NormalizedKey(key) == INPUT_ \o HyphensToUnderscores(Substring(key, 6))

\* C11: in wrapped mode every parent variable INPUT_<name> with <name> not
\* reserved is present in the nested environment as INPUT_<name with '-'
\* replaced by '_'> with its value (when no other forwarded variable has the
\* same rewritten name), and a reserved INPUT_ variable of the nested
\* environment is the parent's own, unchanged.
C11_ForwardedWithUnderscores ==
    (envMode = "wrapped" /\ nestedEnv # NoEnv) =>
        /\ \A key \in ForwardedKeys(parentEnv) :
              (\A other \in ForwardedKeys(parentEnv) :
                    NormalizedKey(other) = NormalizedKey(key) => other = key)
              => /\ NormalizedKey(key) \in DOMAIN nestedEnv
                 /\ nestedEnv[NormalizedKey(key)] = parentEnv[key]
        /\ \A key \in DOMAIN nestedEnv :
              (StartsWith(key, INPUT_)
                    /\ Substring(key, 6) \in wrapperSpecificInputs)
              => /\ key \in DOMAIN parentEnv
                 /\ nestedEnv[key] = parentEnv[key]

INPUT_INPUT_ == INPUT_ \o <<"I", "N", "P", "U", "T", "_">>

\* C12: in wrapped mode a parent variable INPUT_INPUT_<X> reaches the nested
\* environment as INPUT_<X> with the prefixed variable's value, whatever
\* INPUT_<X> held in the parent (when no other pass-through variable names
\* the same nested input).
C12_PrefixedInputOverrides ==
    (envMode = "wrapped" /\ nestedEnv # NoEnv) =>
        \A key \in DOMAIN parentEnv :
            (/\ StartsWith(key, INPUT_INPUT_)
             /\ \A other \in PassThroughKeys(parentEnv) :
                    EnvKey(NestedInputName(other)) # INPUT_ \o Substring(key, 12))
            => /\ INPUT_ \o Substring(key, 12) \in DOMAIN nestedEnv
               /\ nestedEnv[INPUT_ \o Substring(key, 12)] = parentEnv[key]

----------------------------------------------------------------------------
(* Properties: identifier extraction *)

HasMarker(line) == \E i \in 1..Len(line) : line[i] = desiredSubstring
HasHexRun(line) == \E i \in 1..Len(line) : HexAt(line, i, OidLength)
\* line[i..i+n-1] is a run of hexadecimal digits that extends to neither side
MaximalRunAt(line, i, n) ==
    /\ HexAt(line, i, n)
    /\ (i = 1 \/ line[i-1] \notin HexDigits)
    /\ (i + n - 1 = Len(line) \/ line[i+n] \notin HexDigits)
HasExactRun(line) == \E i \in 1..Len(line) : MaximalRunAt(line, i, OidLength)
MarkedLines == SelectSeq(Split(output, "\n"),
                         LAMBDA line : HasMarker(line) /\ HasHexRun(line))
ExactLines == SelectSeq(Split(output, "\n"),
                        LAMBDA line : HasMarker(line) /\ HasExactRun(line))

\* C13: the identifiers returned are, in order, one per line that holds the
\* marker and OidLength consecutive hexadecimal digits, each taken from its
\* line; lines without the marker add nothing and repeated identifiers stay.
C13_OnePerMarkedLineInOrder ==
    gitOIDs # NotExtracted =>
        /\ Len(gitOIDs) = Len(MarkedLines)
        /\ \A k \in 1..Len(gitOIDs) :
              \E i \in 1..Len(MarkedLines[k]) :
                  /\ HexAt(MarkedLines[k], i, OidLength)
                  /\ gitOIDs[k] = SubSeq(MarkedLines[k], i, i + OidLength - 1)

C13_RepeatedAfterUnmarked ==
    /\ output = Join(<<Run("a", OidLength),
                       <<desiredSubstring>> \o Run("a", OidLength),
                       <<desiredSubstring>> \o Run("a", OidLength)>>)
    /\ gitOIDs = <<Run("a", OidLength), Run("a", OidLength)>>

\* C14: the identifiers returned are, in order, one per marker line that
\* holds a run of exactly OidLength hexadecimal digits, and each is such a
\* complete run of its line: a marker line whose runs are all shorter or all
\* longer gives nothing.
C14_OnlyExactRuns ==
    gitOIDs # NotExtracted =>
        /\ Len(gitOIDs) = Len(ExactLines)
        /\ \A k \in 1..Len(gitOIDs) :
              \E i \in 1..Len(ExactLines[k]) :
                  /\ MaximalRunAt(ExactLines[k], i, OidLength)
                  /\ gitOIDs[k] = SubSeq(ExactLines[k], i, i + OidLength - 1)

----------------------------------------------------------------------------
(* Properties: failures of the run *)

Did_(call) == \E i \in 1..Len(effects) : effects[i] = call
NeitherSupplied == inputs.actionRef = Unset /\ ~inputs.command
NothingLaunched == ~Did_("fetch") /\ ~Did_("build") /\ ~Did_("exec")

\* C15 as stated: with neither action-ref nor command the run does not
\* succeed, a failed run reports the missing-target error, and nothing is
\* fetched, built or executed.
C15_MissingTargetReported ==
    NeitherSupplied =>
        /\ state # "Done"
        /\ state = "Failed" => failures = <<WrapperActionFailed(Thrown(MissingTarget))>>
        /\ NothingLaunched

\* C15, amended: with neither action-ref nor command the run does not
\* succeed and nothing is fetched, built or executed; a failed run reports
\* the missing-target error when the tool was provisioned, and the
\* provisioning error when it was not.
C15_MissingTargetAfterProvisioning ==
    NeitherSupplied =>
        /\ state # "Done"
        /\ NothingLaunched
        /\ (state = "Failed" /\ Did_("addPath")) =>
                failures = <<WrapperActionFailed(Thrown(MissingTarget))>>
        /\ (state = "Failed" /\ ~Did_("addPath")) =>
                /\ Len(failures) = 1
                /\ failures[1] # WrapperActionFailed(Thrown(MissingTarget))
                /\ \A i \in 1..Len(effects) :
                      effects[i] \in {"downloadWitness", "downloadTool", "setFailed"}

C15_MissingTargetFailure ==
    /\ NeitherSupplied
    /\ state = "Failed"
    /\ effects = <<"downloadWitness", "addPath", "setFailed">>
    /\ failures = <<WrapperActionFailed(Thrown(MissingTarget))>>
    /\ exited

\* C16: a failing dependency installation is never the error that fails the
\* run: after it the run goes on to build the command.
C16_InstallFailureNotFatal ==
    /\ caught.message # NpmInstallFailed
    /\ \A i \in 1..Len(failures) :
            failures[i] # WrapperActionFailed(Thrown(NpmInstallFailed))

\* C17: a failed run has reported exactly one failure message, and that
\* report is the last thing the run did: nothing of a later state follows it.
C17_SingleFailureReport ==
    state = "Failed" =>
        /\ Len(failures) = 1
        /\ Len(effects) >= 1
        /\ effects[Len(effects)] = "setFailed"
        /\ \A i \in 1..(Len(effects) - 1) : effects[i] # "setFailed"

----------------------------------------------------------------------------
(* Properties: tool provisioning *)

BothDownloadsFailed == toolWorld.primary = "fail" /\ toolWorld.mirror = "fail"
Downloaded == toolWorld.primary = "ok" \/ toolWorld.mirror = "ok"
PrimaryUrl == DownloadUrl(toolWorld.platform)
MirrorUrl == [PrimaryUrl EXCEPT !.owner = "in-toto"]

\* the order of the downloads: none on a cache hit, the primary URL first,
\* the mirror URL second and only after the primary has failed
FallbackOrder ==
    /\ toolWorld.cached => toolDownloads = <<>>
    /\ Len(toolDownloads) <= 2
    /\ Len(toolDownloads) >= 1 => toolDownloads[1] = PrimaryUrl
    /\ Len(toolDownloads) = 2 =>
            toolWorld.primary = "fail" /\ toolDownloads[2] = MirrorUrl
    /\ (toolPc = "done" /\ ~toolWorld.cached) =>
            Len(toolDownloads) = IF toolWorld.primary = "ok" THEN 1 ELSE 2

\* every successful path adds the returned directory to the search path,
\* and no other path adds anything
PathOnSuccess ==
    /\ (toolPc = "done" /\ ~toolResult.threw) => toolPath = <<toolResult.value>>
    /\ (toolPc # "done" \/ toolResult.threw) => toolPath = <<>>

\* C18: the fallback order holds, every success adds the tool's directory
\* to the search path, the download error is thrown exactly when the cache
\* misses and both downloads fail, and the not-found error exactly when a
\* downloaded and extracted archive does not hold the executable where it
\* is looked for; provisioning succeeds on a cache hit and when an archive
\* was downloaded, extracted, searched and cached without error.
C18_FallbackProtocol ==
    /\ FallbackOrder
    /\ PathOnSuccess
    /\ toolPc = "done" =>
            /\ toolResult = Thrown(CouldNotDownload)
                    <=> (~toolWorld.cached /\ BothDownloadsFailed)
            /\ toolResult = Thrown(ExecutableNotFound)
                    <=> (/\ ~toolWorld.cached
                         /\ Downloaded
                         /\ toolWorld.extract = "ok"
                         /\ ~Located(toolWorld.layout))
            /\ ~toolResult.threw
                    <=> \/ toolWorld.cached
                        \/ /\ Downloaded
                           /\ toolWorld.extract = "ok"
                           /\ Located(toolWorld.layout)
                           /\ toolWorld.cache = "ok"

C18_MirrorAfterPrimaryFailed ==
    /\ toolPc = "done"
    /\ ~toolWorld.cached
    /\ toolWorld.primary = "fail"
    /\ toolWorld.layout = "subdirectory"
    /\ toolDownloads = <<PrimaryUrl, MirrorUrl>>
    /\ toolResult = Returned(CachedDir)
    /\ toolPath = <<CachedDir>>

----------------------------------------------------------------------------
(* Properties: order and determinism of the command *)

\* the flags in the order claimed; the three export flags form one group
ClaimedOrder ==
    << {"-a="},
       {"--attestor-link-export", "--attestor-sbom-export", "--attestor-slsa-export"},
       {"--certificate="}, {"--enable-archivista="}, {"--archivista-server="},
       {"--signer-fulcio-url="}, {"--signer-fulcio-oidc-client-id="},
       {"--signer-fulcio-oidc-issuer="}, {"--signer-fulcio-token="},
       {"-i="}, {"--key="}, {"--attestor-product-exclude-glob="},
       {"--attestor-product-include-glob="}, {"--spiffe-socket="}, {"-s="},
       {"--timestamp-servers="}, {"--trace="}, {"--outfile="} >>
\* the same with the flag the builder emits after the export flags
EmittedOrder ==
    SubSeq(ClaimedOrder, 1, 2) \o << {"--attestor-maven-pom-path="} >>
        \o SubSeq(ClaimedOrder, 3, Len(ClaimedOrder))
Repeatable == {"-a=", "-i=", "--timestamp-servers="}

\* the place of a flag in an order, 0 for a flag the order does not hold
Rank(flag, order) ==
    IF \E r \in 1..Len(order) : flag \in order[r]
    THEN CHOOSE r \in 1..Len(order) : flag \in order[r]
    ELSE 0

\* args is "run", flags of the given order (each group's flags in any order,
\* a flag twice only if it is repeatable), the first "--", and the target
\* invocation to the end
InOrder(args, order, invocation) ==
    /\ Len(args) >= 2
    /\ args[1] = <<"run">>
    /\ \E sep \in 2..Len(args) :
          /\ args[sep] = <<"--">>
          /\ \A i \in 2..(sep - 1) :
                /\ args[i] # <<"--">>
                /\ Rank(args[i][1], order) # 0
                /\ i > 2 => Rank(args[i-1][1], order) <= Rank(args[i][1], order)
          /\ \A i, j \in 2..(sep - 1) :
                (i < j /\ args[i][1] = args[j][1]) => args[i][1] \in Repeatable
          /\ SubSeq(args, sep + 1, Len(args)) = invocation

MaskTemp(r) ==
    [r EXCEPT !.value =
        [i \in DOMAIN r.value |->
            [j \in DOMAIN r.value[i] |->
                IF r.value[i][j] \in MkdtempSuffixes THEN "*" ELSE r.value[i][j]]]]

----------------------------------------------------------------------------
(* Properties: reporting *)

Occurrences(s, t) ==
    Cardinality({i \in 0..(Len(s) - Len(t)) : SubSeq(s, i + 1, i + Len(t)) = t})
TableHeader ==
    <<"## Attestations Created", "\n",
      "| Step | Attestors Run | Attestation GitOID", "\n",
      "| --- | --- | --- |">>
IsPrefix(s, t) == Len(s) <= Len(t) /\ SubSeq(t, 1, Len(s)) = s
\* the table rows among the lines of a text
RowLines(text) ==
    SelectSeq(Split(text, "\n"), LAMBDA l : l # <<>> /\ l[1] = "| ")
\* the step in which run() reports, with the summary file available
Reports ==
    /\ state = "Reporting" /\ state' = "Done"
    /\ summary.path /\ summary.readable
\* the outputs are the identifiers in order, the file grows by one row for
\* each of them in order, and nothing it held is touched
ReportsEachOnce ==
    LET appended == SubSeq(summary'.content, Len(summary.content) + 1,
                           Len(summary'.content))
        rows == RowLines(appended)
    IN  /\ setOutputs' = gitOIDs
        /\ IsPrefix(summary.content, summary'.content)
        /\ Len(rows) = Len(gitOIDs)
        /\ \A i \in 1..Len(rows) : rows[i] \o <<"\n">> = tableRow(gitOIDs[i])

\* C21: on a successful run with the summary file available, git_oid is set
\* once per identifier in extraction order, exactly one row per identifier
\* is appended in that order, nothing already in the file changes, and the
\* table header occurs exactly once in the file afterwards
C21_HeaderExactlyOnce ==
    [][Reports =>
          /\ ReportsEachOnce
          /\ Occurrences(summary'.content, TableHeader) = 1]_vars

\* C21: the same, with the header exactly once when at least one identifier
\* was reported or the file already held the header, and absent otherwise
C21_HeaderOnceWhenReported ==
    [][Reports =>
          /\ ReportsEachOnce
          /\ Occurrences(summary'.content, TableHeader) =
                IF gitOIDs # <<>> \/ Occurrences(summary.content, TableHeader) = 1
                THEN 1 ELSE 0]_vars

\* two identifiers reported into a file an earlier run had written to
C21_ReportedAfterEarlierRun ==
    /\ state = "Done"
    /\ Len(setOutputs) = 2 /\ setOutputs[1] # setOutputs[2]
    /\ summary.readable
    /\ Len(RowLines(summary.content)) = 3
    /\ Occurrences(summary.content, TableHeader) = 1

----------------------------------------------------------------------------
(* Properties: order of the states *)

StateOrder ==
    <<"ParsingInputs", "ProvisioningTool", "ResolvingTarget", "BuildingCommand",
      "Executing", "ExtractingResults", "Reporting", "Done">>
Position(st) == CHOOSE i \in 1..Len(StateOrder) : StateOrder[i] = st
\* a step that changes the state enters the next state of the list, or Failed
ForwardOnly ==
    state' # state =>
        /\ state \notin TerminalStates
        /\ state' = "Failed" \/ Position(state') = Position(state) + 1
\* what an await started has settled before the state after it begins
Settled ==
    /\ Did_("downloadTool") \/ Did_("addPath") => state = "Failed" \/ Position(state) > 2
    /\ Did_("fetch") => state = "Failed" \/ Position(state) > 3
    /\ Did_("npm install") => state = "Failed" \/ Position(state) > 4
    /\ Did_("exec") => state = "Failed" \/ Position(state) > 5
Suspending == {"downloadWitness", "downloadTool", "fetch", "npm install", "exec"}
AtMost(call, n) == Count(effects, call) <= n

\* C22: the states are passed in the listed order, none twice, every await
\* settles before the next state begins, and no operation is repeated
\* except the fetcher's download, which is tried at most twice
C22_OnlyFetchRepeated ==
    [][/\ ForwardOnly
       /\ Settled'
       /\ \A call \in Suspending \ {"fetch"} : AtMost(call, 1)'
       /\ AtMost("fetch", 2)']_vars

\* C22: the same, where the tool download is tried at most twice as well
C22_FetchAndToolDownloadRepeated ==
    [][/\ ForwardOnly
       /\ Settled'
       /\ \A call \in Suspending \ {"fetch", "downloadTool"} : AtMost(call, 1)'
       /\ AtMost("fetch", 2)'
       /\ AtMost("downloadTool", 2)']_vars

\* a run that reached Done after both fallbacks were used
C22_DoneAfterBothRetries ==
    /\ state = "Done"
    /\ Count(effects, "fetch") = 2
    /\ Count(effects, "downloadTool") = 2

----------------------------------------------------------------------------
(* Properties: executor *)

\* the bytes of the chunks received so far, all of them or one stream's
RECURSIVE Bytes(_)
Bytes(chunks) ==
    IF chunks = <<>> THEN <<>> ELSE Head(chunks).data \o Bytes(Tail(chunks))
From(stream) == SelectSeq(received, LAMBDA chunk : chunk.stream = stream)

\* C23: whatever the interleaving, once the child's streams have ended the
\* combined buffer is exactly the chunks in receipt order, and each
\* stream's chunks have been written to the parent's stream of the same
\* name, in order
C23_BufferIsConcatenation ==
    childStdout = <<>> /\ childStderr = <<>> =>
        /\ Utf8(captured) = Bytes(received)
        /\ parentStdout = Bytes(From("stdout"))
        /\ parentStderr = Bytes(From("stderr"))

----------------------------------------------------------------------------
(* Properties: multi-value inputs *)

\* the entries of a space-separated list: its maximal runs of characters
\* other than the space, in order
Entries(s) ==
    LET starts == {i \in 1..Len(s) : s[i] # " " /\ (i = 1 \/ s[i-1] = " ")}
        EndOf(i) == CHOOSE j \in i..Len(s) :
                        /\ \A k \in i..j : s[k] # " "
                        /\ j = Len(s) \/ s[j+1] = " "
        Nth(n) == CHOOSE i \in starts : Cardinality({j \in starts : j < i}) = n - 1
    IN  [n \in 1..Cardinality(starts) |-> SubSeq(s, Nth(n), EndOf(Nth(n)))]
\* the tokens of the witness options that carry a flag, in order
Flagged(cmd, flag) ==
    LET dashes == CHOOSE i \in 1..Len(cmd) :
                      cmd[i] = <<"--">> /\ \A j \in 1..(i-1) : cmd[j] # <<"--">>
    IN  SelectSeq(SubSeq(cmd, 1, dashes), LAMBDA token : token[1] = flag)
OneFlagPerEntry(flag, input) ==
    Flagged(built.value, flag) =
        [n \in 1..Len(Entries(input)) |-> <<flag>> \o Entries(input)[n]]

\* C24: the built command holds one -a=, -i= or --timestamp-servers= flag
\* for each non-empty entry of the corresponding space-separated input, in
\* the order of the input, and none for an empty entry
C24_OneFlagPerEntry ==
    built # NotBuilt /\ ~built.threw =>
        /\ OneFlagPerEntry("-a=", rawInputs.attestations)
        /\ OneFlagPerEntry("-i=", rawInputs.intermediates)
        /\ OneFlagPerEntry("--timestamp-servers=", rawInputs.timestampServers)

\* lists of two entries with repeated and trailing spaces between them
C24_TwoEntriesRepeatedSpaces ==
    /\ built # NotBuilt /\ ~built.threw
    /\ rawInputs.attestations = <<"v", " ", " ", "u", " ">>
    /\ rawInputs.timestampServers = <<"u", " ", "v">>
    /\ rawInputs.intermediates = <<"i.pem", " ", " ", "j.pem">>
    /\ Len(Flagged(built.value, "-a=")) = 2

----------------------------------------------------------------------------
(* Properties: identifiers and the marker *)

\* the text of a marked line that follows the marker
AfterMarker(line) ==
    LET at == CHOOSE i \in 1..Len(line) :
                  line[i] = desiredSubstring
                  /\ \A j \in 1..(i-1) : line[j] # desiredSubstring
    IN  SubSeq(line, at + 1, Len(line))
\* the first run of OidLength hexadecimal digits after the marker, for each
\* marked line that has one
RECURSIVE FollowingMarker(_)
FollowingMarker(lines) ==
    IF lines = <<>>
    THEN <<>>
    ELSE (IF HasMarker(Head(lines)) /\ HasHexRun(AfterMarker(Head(lines)))
          THEN match(AfterMarker(Head(lines)))
          ELSE <<>>) \o FollowingMarker(Tail(lines))

\* C25: every identifier extracted is taken from the text that follows the
\* marker on its line: a run that only precedes the marker yields nothing,
\* and of a run before and a run after the marker the latter is returned
C25_TakenAfterMarker ==
    gitOIDs # NotExtracted =>
        gitOIDs = FollowingMarker(Split(output, "\n"))

----------------------------------------------------------------------------
(* Properties: the two modes *)

BothSupplied == inputs.actionRef # Unset /\ inputs.command

\* C26: with action-ref and command both supplied the run is a wrapped
\* one: what is executed is the fetched artifact, the command is neither
\* tokenized nor executed, and no run takes both execution paths
C26_ActionRefWins ==
    /\ BothSupplied =>
          /\ ~Did_("runDirectCommandWithWitness") /\ ~Did_("tokenize")
          /\ Did_("exec") => Did_("fetch") /\ Did_("runActionWithWitness")
    /\ ~(Did_("runActionWithWitness") /\ Did_("runDirectCommandWithWitness"))
    /\ Count(effects, "runActionWithWitness") <= 1
    /\ Count(effects, "runDirectCommandWithWitness") <= 1
    /\ Count(effects, "exec") <= 1

\* both inputs supplied and the fetched artifact executed to the end
C26_BothSuppliedDone == BothSupplied /\ state = "Done" /\ Did_("fetch")

----------------------------------------------------------------------------
(* Properties: the strace wrapper *)

\* C27: the nested entry file is executed at most once per invocation; a
\* failed or non-zero wrapped execution is not followed by a second
\* execution, and the execution without the wrapper after a wrapped attempt
\* happens only when the wrapper command is not available
C27_EntryRunsOnce ==
    /\ Len(nodeRuns) <= 1
    /\ wrapPc = "fallback" => ~wrapWorld.available

----------------------------------------------------------------------------
(* Properties: the tokenizer *)

\* the target invocation of a built command, joined with single spaces
JoinedInvocation ==
    LET dashes == CHOOSE i \in 1..Len(built.value) :
                      built.value[i] = <<"--">>
                      /\ \A j \in 1..(i-1) : built.value[j] # <<"--">>
    IN  JoinWith(SubSeq(built.value, dashes + 1, Len(built.value)), <<" ">>)
NonBlank(str) == SelectSeq(str, LAMBDA c : c \notin Whitespace)

\* C28: in direct mode the target invocation holds every non-whitespace
\* character of the command, unbalanced double quotes included, in order
C28_NoContentLost ==
    built # NotBuilt /\ ~built.threw /\ target.mode = "direct" =>
        NonBlank(JoinedInvocation) = NonBlank(target.command)

----------------------------------------------------------------------------
(* Properties: the end of the run *)

\* C29: a run that reached Done exits with status 0, whichever of the
\* forced-exit timer, the deadline timer and the signal handlers runs first
C29_DoneExitsZero ==
    exited /\ state = "Done" => exitStatus = 0

\* C30: when the subprocess exits with a non-zero status the run fails and
\* reports no identifier: no git_oid output, no summary row, whatever the
\* output captured
C30_NonZeroExitReportsNothing ==
    childStatus \notin {NotRun, 0} =>
        /\ state = "Failed"
        /\ exitCode = 1
        /\ failures # <<>>
        /\ gitOIDs = NotExtracted
        /\ setOutputs = <<>>
        /\ ~Did_("setOutput") /\ ~Did_("appendFileSync")
        /\ summary.readable => summary.content \in EarlierSummaries

\* the subprocess printed marker lines with identifiers and exited with 1
C30_FailedWithIdentifiersPrinted ==
    /\ childStatus = 1
    /\ state = "Failed"
    /\ Len(extractDesiredGitOIDs(output)) = 2
    /\ summary.readable

----------------------------------------------------------------------------
(* Specifications *)

Next ==
    \/ StartRun
    \/ ProvisionTool
    \/ ResolveTarget
    \/ BuildCommand
    \/ Execute
    \/ ExtractResults
    \/ Report
    \/ ForcedExit
    \/ ActionTimeout
    \/ Signal

Init ==
    /\ InitOrch /\ ParseIdle /\ FetchIdle /\ BuildIdle /\ EnvIdle /\ OidIdle /\ ToolIdle
    /\ InitReport /\ ExecIdle /\ WrapIdle

Spec == Init /\ [][Next]_vars

NextParse == ParseRef /\ UNCHANGED <<orchVars, fetchVars, buildVars, envVars, oidVars, toolVars,
                 reportVars, execVars, wrapVars>>

ParseInit ==
    /\ OrchIdle /\ InitParse /\ FetchIdle /\ BuildIdle /\ EnvIdle /\ OidIdle /\ ToolIdle
    /\ ReportIdle /\ ExecIdle /\ WrapIdle

SpecParse == ParseInit /\ [][NextParse]_vars

NextFetch ==
    \/ FetchStart /\ UNCHANGED <<orchVars, parseVars, buildVars, envVars, oidVars, toolVars,
                 reportVars, execVars, wrapVars>>
    \/ PrimarySettles /\ UNCHANGED <<orchVars, parseVars, buildVars, envVars, oidVars, toolVars,
                 reportVars, execVars, wrapVars>>
    \/ AltSettles /\ UNCHANGED <<orchVars, parseVars, buildVars, envVars, oidVars, toolVars,
                 reportVars, execVars, wrapVars>>

FetchInit ==
    /\ OrchIdle /\ ParseIdle /\ InitFetch /\ BuildIdle /\ EnvIdle /\ OidIdle /\ ToolIdle
    /\ ReportIdle /\ ExecIdle /\ WrapIdle

SpecFetch == FetchInit /\ [][NextFetch]_vars

NextBuild ==
    \/ Build /\ UNCHANGED <<orchVars, parseVars, fetchVars, envVars, oidVars, toolVars,
                 reportVars, execVars, wrapVars>>
    \/ Rebuild /\ UNCHANGED <<orchVars, parseVars, fetchVars, envVars, oidVars, toolVars,
                 reportVars, execVars, wrapVars>>

BuildInit ==
    /\ OrchIdle /\ ParseIdle /\ FetchIdle /\ InitBuild /\ EnvIdle /\ OidIdle /\ ToolIdle
    /\ ReportIdle /\ ExecIdle /\ WrapIdle

SpecBuild == BuildInit /\ [][NextBuild]_vars

NextEnv ==
    ProjectEnv /\ UNCHANGED <<orchVars, parseVars, fetchVars, buildVars, oidVars, toolVars,
                 reportVars, execVars, wrapVars>>

EnvInit ==
    /\ OrchIdle /\ ParseIdle /\ FetchIdle /\ BuildIdle /\ InitEnv /\ OidIdle /\ ToolIdle
    /\ ReportIdle /\ ExecIdle /\ WrapIdle

SpecEnv == EnvInit /\ [][NextEnv]_vars

NextOid ==
    Extract /\ UNCHANGED <<orchVars, parseVars, fetchVars, buildVars, envVars, toolVars,
                        reportVars, execVars, wrapVars>>

OidInit ==
    /\ OrchIdle /\ ParseIdle /\ FetchIdle /\ BuildIdle /\ EnvIdle /\ InitOid /\ ToolIdle
    /\ ReportIdle /\ ExecIdle /\ WrapIdle

SpecOid == OidInit /\ [][NextOid]_vars

NextTool ==
    \/ ToolStart /\ UNCHANGED <<orchVars, parseVars, fetchVars, buildVars, envVars, oidVars,
                       reportVars, execVars, wrapVars>>
    \/ ToolPrimarySettles
          /\ UNCHANGED <<orchVars, parseVars, fetchVars, buildVars, envVars, oidVars,
                       reportVars, execVars, wrapVars>>
    \/ ToolMirrorSettles
          /\ UNCHANGED <<orchVars, parseVars, fetchVars, buildVars, envVars, oidVars,
                       reportVars, execVars, wrapVars>>
    \/ ToolExtractSettles
          /\ UNCHANGED <<orchVars, parseVars, fetchVars, buildVars, envVars, oidVars,
                       reportVars, execVars, wrapVars>>
    \/ ToolLocate /\ UNCHANGED <<orchVars, parseVars, fetchVars, buildVars, envVars, oidVars,
                       reportVars, execVars, wrapVars>>

ToolInit ==
    /\ OrchIdle /\ ParseIdle /\ FetchIdle /\ BuildIdle /\ EnvIdle /\ OidIdle /\ InitTool
    /\ ReportIdle /\ ExecIdle /\ WrapIdle

SpecTool == ToolInit /\ [][NextTool]_vars

NextExec ==
    \/ StdoutListener
          /\ UNCHANGED <<orchVars, parseVars, fetchVars, buildVars, envVars, oidVars,
                         toolVars, reportVars, wrapVars>>
    \/ StderrListener
          /\ UNCHANGED <<orchVars, parseVars, fetchVars, buildVars, envVars, oidVars,
                         toolVars, reportVars, wrapVars>>

ExecInit ==
    /\ OrchIdle /\ ParseIdle /\ FetchIdle /\ BuildIdle /\ EnvIdle /\ OidIdle /\ ToolIdle
    /\ ReportIdle /\ InitExec /\ WrapIdle

SpecExec == ExecInit /\ [][NextExec]_vars

NextWrap ==
    \/ WrapStart
          /\ UNCHANGED <<orchVars, parseVars, fetchVars, buildVars, envVars, oidVars,
                         toolVars, reportVars, execVars>>
    \/ WhichSettles
          /\ UNCHANGED <<orchVars, parseVars, fetchVars, buildVars, envVars, oidVars,
                         toolVars, reportVars, execVars>>
    \/ WrappedSettles
          /\ UNCHANGED <<orchVars, parseVars, fetchVars, buildVars, envVars, oidVars,
                         toolVars, reportVars, execVars>>
    \/ PlainSettles
          /\ UNCHANGED <<orchVars, parseVars, fetchVars, buildVars, envVars, oidVars,
                         toolVars, reportVars, execVars>>

WrapInit ==
    /\ OrchIdle /\ ParseIdle /\ FetchIdle /\ BuildIdle /\ EnvIdle /\ OidIdle /\ ToolIdle
    /\ ReportIdle /\ ExecIdle /\ InitWrap

SpecWrap == WrapInit /\ [][NextWrap]_vars

====
